---- MODULE Spec2Model ----
(***************************************************************************)
(* The connection-lifecycle and message-normalization core of the chat     *)
(* client: connectAuthSocket (both versions kept in the repository), the   *)
(* pre-attachment frame buffer, and the ChatRoom effect that attaches to   *)
(* the socket, drains the buffer and decodes frames into the transcript.   *)
(***************************************************************************)
EXTENDS Integers, Sequences, FiniteSets, TLC

VARIABLES
    variant,        \* which connectAuthSocket: "plain" or "precheck" (awaits a fetch first)
    hasSignal,      \* options.signal was supplied
    urlOk,          \* new WebSocket(url) accepts the URL; FALSE: the constructor throws
    signalAborted,  \* signal.aborted
    att,            \* the connection attempt: executor position, closure variables, socket, promise
    hist,           \* history of the attempt's events (observation only)
    buffer,         \* socket.__initialMessageBuffer
    delivered,      \* history: the text of every frame the transport delivered, in arrival order
    room,           \* the ChatRoom component: messages, connectionState, its effect, history of decodes
    currentUser,    \* the currentUser prop of ChatRoom
    lenientDates,   \* the engine's Date parser accepts the legacy (non-ISO) date forms
    target,         \* a connectAuthSocket call's environment and arguments, and the request it makes
    session         \* the App and LoginDialog components, their attempts and sockets

connVars == <<variant, hasSignal, urlOk, signalAborted, att, hist>>
chatVars == <<buffer, delivered, room, currentUser, lenientDates, target, session>>
vars == <<variant, hasSignal, urlOk, signalAborted, att, hist, buffer, delivered, room, currentUser,
          lenientDates, target, session>>

----------------------------------------------------------------------------
(* Bounds: frames the transport delivers, runs of the ChatRoom effect. *)

MaxFrames == 3
MaxRuns == 2
\* Frames delivered where single entries are decoded.
MaxDecodes == 2
\* Messages the user submits.
MaxSends == 2
\* Submissions of the login form.
MaxSubmits == 3
\* Characters of a username.
MaxName == 2

----------------------------------------------------------------------------
(* Text.  A string is the sequence of its characters; the inside of a JSON  *)
(* text and the fixed wording of a system notice are written as one token.  *)

S_System == <<"S", "y", "s", "t", "e", "m">>
S_bob == <<"b", "o", "b">>
S_ann == <<"a", "n", "n">>

Whitespace == {" ", "\t", "\n"}
Digits == {"0", "1", "2", "3", "4", "5", "6", "7", "8", "9"}

RECURSIVE trimStart(_)
trimStart(s) ==
    IF s # <<>> /\ Head(s) \in Whitespace THEN trimStart(Tail(s)) ELSE s

RECURSIVE trimEnd(_)
trimEnd(s) ==
    IF s # <<>> /\ s[Len(s)] \in Whitespace THEN trimEnd(SubSeq(s, 1, Len(s) - 1)) ELSE s

trim(s) == trimEnd(trimStart(s))

lowerChar(c) ==
    CASE c = "A" -> "a" [] c = "B" -> "b" [] c = "C" -> "c" [] c = "D" -> "d"
      [] c = "E" -> "e" [] c = "F" -> "f" [] c = "G" -> "g" [] c = "H" -> "h"
      [] c = "I" -> "i" [] c = "J" -> "j" [] c = "K" -> "k" [] c = "L" -> "l"
      [] c = "M" -> "m" [] c = "N" -> "n" [] c = "O" -> "o" [] c = "P" -> "p"
      [] c = "Q" -> "q" [] c = "R" -> "r" [] c = "S" -> "s" [] c = "T" -> "t"
      [] c = "U" -> "u" [] c = "V" -> "v" [] c = "W" -> "w" [] c = "X" -> "x"
      [] c = "Y" -> "y" [] c = "Z" -> "z" [] OTHER -> c

toLowerCase(s) == [i \in 1..Len(s) |-> lowerChar(s[i])]

startsWith(s, c) == s # <<>> /\ s[1] = c
endsWith(s, c) == s # <<>> /\ s[Len(s)] = c
replaceAll(s, from, to) == [i \in 1..Len(s) |-> IF s[i] = from THEN to ELSE s[i]]
reverse(q) == [i \in 1..Len(q) |-> q[Len(q) + 1 - i]]

----------------------------------------------------------------------------
(* JSON values: t is the JavaScript type, s the text of a string or number *)
(* or the elements of an array; an object carries its keys as fields, an   *)
(* absent key holding undefined.                                           *)

Undef == [t |-> "undefined", s |-> <<>>]
JNull == [t |-> "null", s |-> <<>>]
Str(s) == [t |-> "string", s |-> s]
Num(s) == [t |-> "number", s |-> s]
Arr(items) == [t |-> "array", s |-> items]
EmptyObj ==
    [t |-> "object", s |-> <<>>, id |-> Undef, data |-> Undef,
     userName |-> Undef, username |-> Undef, user |-> Undef,
     message |-> Undef, content |-> Undef, text |-> Undef,
     date_time |-> Undef, timestamp |-> Undef, time |-> Undef]

Nullish(v) == v.t \in {"undefined", "null"}
\* vs[1] ?? vs[2] ?? ... ?? undefined
firstPresent(vs) ==
    LET present == {i \in 1..Len(vs) : ~Nullish(vs[i])}
    IN IF present = {} THEN Undef
       ELSE vs[CHOOSE i \in present : \A j \in present : i <= j]
\* v[key] of a value that is neither null nor undefined
get(v, key) == IF v.t = "object" THEN v[key] ELSE Undef
\* String(v)
String(v) ==
    CASE v.t \in {"string", "number"} -> v.s
      [] v.t = "null" -> <<"n", "u", "l", "l">>
      [] v.t = "undefined" -> <<"undefined">>
      [] OTHER -> <<"[object Object]">>

extractString(value) ==
    IF value.t # "string"
    THEN Undef
    ELSE LET trimmed == trim(value.s)
         IN IF Len(trimmed) > 0 THEN Str(trimmed) ELSE Undef

randomId(n) == <<"uuid-", ToString(n)>>

\* Batch elements.
E1 == [EmptyObj EXCEPT !.id = Str(<<"1">>), !.userName = Str(S_bob),
                       !.message = Str(<<"o", "n", "e">>)]
E2 == [EmptyObj EXCEPT !.id = Num(<<"2">>), !.userName = Str(S_ann),
                       !.message = Str(<<"t", "w", "o">>)]
E3 == [EmptyObj EXCEPT !.user = Str(<<"b", "o", "b", "0", "3", ":", "2", "9">>),
                       !.content = Str(<<" ", "s", "i", "x", " ">>)]
ENum == Num(<<"7">>)

\* The texts JSON.parse accepts, with the value it returns for each.
R_batch321 == <<"{", "data:[E3,E2,E1]", "}">>
R_batchNull == <<"{", "data:[E1,null]", "}">>
R_batchNum == <<" ", "{", "data:[7,E2]", "}">>
R_batchEmpty == <<"{", "data:[]", "}">>
R_single == <<"{", "userName:bob,message:hi", "}">>
R_text == <<"a", "n", "n", " ", ":", " ", "h", "i">>

\* Structured entries, each received as a single frame and as a batch element.
S_bobAt == <<"b", "o", "b", "0", "3", ":", "2", "9">>
S_bobSpaceAt == <<"b", "o", "b", " ", "0", "3", ":", "2", "9">>
S_SystemAt == <<"S", "y", "s", "t", "e", "m", " ", "0", "3", ":", "2", "9">>
S_SYSTEM == <<"S", "Y", "S", "T", "E", "M">>

EntryText(k) == <<"{", "entry", ToString(k), "}">>

Entries ==
    << [EmptyObj EXCEPT !.id = Str(<<"4", "2">>), !.userName = Str(S_bob),
                        !.message = Str(<<"h", "i">>)],
       [EmptyObj EXCEPT !.user = Str(S_ann), !.username = Str(S_bob),
                        !.text = Str(<<"y", "o">>)],
       [EmptyObj EXCEPT !.userName = Str(<<" ">>), !.username = Str(S_ann),
                        !.message = Str(<<>>), !.content = Str(<<"c">>),
                        !.time = Str(<<" ">>)],
       [EmptyObj EXCEPT !.userName = Str(S_SystemAt), !.message = Str(<<"m">>)],
       [EmptyObj EXCEPT !.user = Str(S_bobAt), !.content = Str(<<" ", "s", "i", "x", " ">>)],
       [EmptyObj EXCEPT !.userName = Str(S_SYSTEM), !.message = Str(<<"x">>)],
       EmptyObj,
       [EmptyObj EXCEPT !.userName = Str(S_bob), !.message = Str(EntryText(1))],
       [EmptyObj EXCEPT !.userName = Str(S_ann), !.message = Str(<<"t">>),
                        !.date_time = Str(<<"2024", "/", "01", "/", "02", " ", "03:04">>)],
       [EmptyObj EXCEPT !.userName = Str(S_ann), !.message = Str(<<"t">>),
                        !.timestamp = Str(<<"not-a-date">>)],
       [EmptyObj EXCEPT !.userName = Str(S_bobSpaceAt), !.message = Str(<<"t">>),
                        !.time = Str(<<" ", "nope">>)],
       [EmptyObj EXCEPT !.userName = Str(S_ann), !.message = Str(<<"u">>),
                        !.date_time = Str(<<"2024", "-", "01", "-", "01">>)],
       [EmptyObj EXCEPT !.id = Str(<<>>), !.userName = Str(S_bob),
                        !.message = Str(<<"e">>)] >>

\* The text of the batch frame whose elements are the entries ks, in that order.
BatchText(ks) ==
    <<"{", "data:[">>
        \o [i \in 1..(2 * Len(ks)) |-> IF i % 2 = 1 THEN "entry" ELSE ToString(ks[i \div 2])]
        \o <<"]", "}">>

\* The batches: every entry alone, and two dated entries in both orders.
BatchOrders == {<<k>> : k \in 1..Len(Entries)} \cup {<<9, 12>>, <<12, 9>>}

EntryTexts ==
    {[raw |-> EntryText(k), json |-> Entries[k]] : k \in 1..Len(Entries)}
        \cup {[raw |-> BatchText(ks),
                json |-> [EmptyObj EXCEPT !.data = Arr([i \in 1..Len(ks) |-> Entries[ks[i]]])]] :
                  ks \in BatchOrders}

R_malformed == <<"{", "oops", "}">>
R_textAt == <<"b", "o", "b", " ", "0", "3", ":", "2", "9", " ", ":", " ", "h", "i">>
R_textTwice == <<"a", "n", "n", " ", ":", " ", "r", "e", " ", ":", " ", "h", "i">>

JsonTexts ==
    EntryTexts \cup
    { [raw |-> R_batch321, json |-> [EmptyObj EXCEPT !.data = Arr(<<E3, E2, E1>>)]],
      [raw |-> R_batchNull, json |-> [EmptyObj EXCEPT !.data = Arr(<<E1, JNull>>)]],
      [raw |-> trim(R_batchNum), json |-> [EmptyObj EXCEPT !.data = Arr(<<ENum, E2>>)]],
      [raw |-> R_batchEmpty, json |-> [EmptyObj EXCEPT !.data = Arr(<<>>)]],
      [raw |-> R_single, json |-> [EmptyObj EXCEPT !.userName = Str(S_bob),
                                                   !.message = Str(<<"h", "i">>)]] }

ParseError == [t |-> "error", s |-> <<>>]

\* JSON.parse(text): the parsed value, or ParseError where it throws.
JsonValue == [raw \in {e.raw : e \in JsonTexts} |-> (CHOOSE e \in JsonTexts : e.raw = raw).json]

JsonParse(text) ==
    IF text \in DOMAIN JsonValue THEN JsonValue[text] ELSE ParseError

\* JSON.stringify(value) of a parsed object.
JsonStringify(value) ==
    IF \E e \in JsonTexts : e.json = value
    THEN (CHOOSE e \in JsonTexts : e.json = value).raw
    ELSE <<"{", "}">>

\* tryParseJson after `const trimmed = payload.trim()`.
parseTrimmed(trimmed) ==
    IF ~(startsWith(trimmed, "{") /\ endsWith(trimmed, "}"))
    THEN JNull
    ELSE LET texts == <<trimmed, replaceAll(trimmed, "'", "\"")>>
             pick(tried) ==
                 LET parsed == IF tried[1].t # "error" THEN tried[1] ELSE tried[2]
                 IN IF parsed.t \in {"object", "array"} THEN parsed ELSE JNull
         IN CHOOSE out \in {pick(tried) :
                               tried \in {[i \in 1..2 |-> JsonParse(texts[i])]}} : TRUE

tryParseJson(payload) ==
    CHOOSE out \in {parseTrimmed(trimmed) : trimmed \in {trim(payload)}} : TRUE

\* The frames the transport may deliver to an attaching ChatRoom.
Frames == {R_batch321, R_batchNull, R_text}

\* The frames delivered where single entries are decoded: every entry as a
\* single frame and as a batch, batches that are empty or hold a null or a
\* number, delimited text, and a text that only looks like JSON.
DecodeFrames ==
    {e.raw : e \in EntryTexts}
        \cup {R_batchNull, R_batchNum, R_batchEmpty, R_textAt, R_textTwice, R_malformed}

----------------------------------------------------------------------------
(* Timestamps.  A date text is a sequence of tokens: year, month and day     *)
(* with their separators, then possibly a blank or "T", a clock token and    *)
(* "Z".  A time is a number of minutes (UTC).                                *)

\* Minutes the local time zone is ahead of UTC.
TzOffset == 60

Years == {"2024"}
Months == {"01"}
DayOf(d) == CASE d = "01" -> 1 [] d = "02" -> 2 [] OTHER -> 0
MinuteOf(hm) == CASE hm = "00:00" -> 0 [] hm = "03:04" -> 184 [] OTHER -> -1

NaN == [valid |-> FALSE, t |-> 0]
\* new Date(): the time of the call.
Now == [now |-> TRUE, t |-> 0]

\* new Date(text).getTime().  The ISO forms are parsed as ECMAScript says (a
\* date alone and a text ending in Z are UTC, a date with a time is local);
\* what the other forms give is left to the engine: a lenient engine reads
\* them as local time, a strict one gives NaN.
DateParse(text) ==
    LET n == Len(text)
        dated(sep) == /\ n >= 5
                      /\ text[1] \in Years /\ text[2] = sep /\ text[3] \in Months
                      /\ text[4] = sep /\ DayOf(text[5]) > 0
        timed(sep) == n >= 7 /\ text[6] = sep /\ MinuteOf(text[7]) >= 0
        utc == [valid |-> TRUE, t |-> DayOf(text[5]) * 1440 + (IF n >= 7 THEN MinuteOf(text[7]) ELSE 0)]
        local == [valid |-> TRUE, t |-> utc.t - TzOffset]
    IN CASE dated("-") /\ n = 5 -> utc
         [] dated("-") /\ timed("T") /\ n = 7 -> local
         [] dated("-") /\ timed("T") /\ n = 8 /\ text[8] = "Z" -> utc
         [] lenientDates /\ dated("/") /\ n = 5 -> local
         [] lenientDates /\ (dated("/") \/ dated("-")) /\ timed(" ") /\ n = 7 -> local
         [] OTHER -> NaN

\* candidate.replace(/\s+/, "T"): the first run of white space becomes one "T".
replaceFirstSpaces(s, to) ==
    LET ws == {i \in 1..Len(s) : s[i] \in Whitespace}
    IN IF ws = {} THEN s
       ELSE LET first == CHOOSE i \in ws : \A j \in ws : i <= j
                after == {j \in first..Len(s) : \A k \in first..j : s[k] \in Whitespace}
                last == CHOOSE j \in after : \A k \in after : k <= j
            IN SubSeq(s, 1, first - 1) \o <<to>> \o SubSeq(s, last + 1, Len(s))

\* The parse variants of a trimmed timestamp source, in the order they are tried.
isoCandidates(trimmed) ==
    LET sanitized == replaceAll(trimmed, "/", "-")
        three(candidate) ==
            LET tCandidate == replaceFirstSpaces(candidate, "T")
            IN <<candidate, tCandidate, tCandidate \o <<"Z">> >>
    IN three(trimmed) \o three(sanitized)

\* deriveTimestamp with the variants tried from the last to the first.
deriveTimestampLastWins(value) ==
    IF value.t # "string" \/ value.s = <<>> \/ trim(value.s) = <<>>
    THEN [date |-> Now, label |-> Undef]
    ELSE LET trimmed == trim(value.s)
             parsed == [i \in 1..6 |-> DateParse(isoCandidates(trimmed)[i])]
             good == {i \in 1..6 : parsed[i].valid}
         IN IF good = {}
            THEN [date |-> Now, label |-> Str(trimmed)]
            ELSE [date |-> [now |-> FALSE,
                            t |-> parsed[CHOOSE i \in good : \A j \in good : i >= j].t],
                  label |-> Undef]

\* value: the timestamp source, a string or undefined.
deriveTimestamp(value) ==
    IF value.t # "string" \/ value.s = <<>> \/ trim(value.s) = <<>>
    THEN [date |-> Now, label |-> Undef]
    ELSE LET trimmed == trim(value.s)
             parsed == [i \in 1..6 |-> DateParse(isoCandidates(trimmed)[i])]
             good == {i \in 1..6 : parsed[i].valid}
         IN IF good = {}
            THEN [date |-> Now, label |-> Str(trimmed)]
            ELSE [date |-> [now |-> FALSE,
                            t |-> parsed[CHOOSE i \in good : \A j \in good : i <= j].t],
                  label |-> Undef]

----------------------------------------------------------------------------
(* Payload decoding *)

isTimeToken(t) ==
    LET d(i) == t[i] \in Digits
        c(i) == t[i] = ":"
    IN \/ Len(t) = 4 /\ d(1) /\ c(2) /\ d(3) /\ d(4)
       \/ Len(t) = 5 /\ d(1) /\ d(2) /\ c(3) /\ d(4) /\ d(5)
       \/ Len(t) = 7 /\ d(1) /\ c(2) /\ d(3) /\ d(4) /\ c(5) /\ d(6) /\ d(7)
       \/ Len(t) = 8 /\ d(1) /\ d(2) /\ c(3) /\ d(4) /\ d(5) /\ c(6) /\ d(7) /\ d(8)

\* sender.match(/^(.*?)(?:\s?)(\d{1,2}:\d{2}(?::\d{2})?)$/): the shortest
\* leading part after which an optional space and a clock token end the string.
matchTrailingTime(sender) ==
    LET rest(p) == SubSeq(sender, p + 1, Len(sender))
        token(p) == IF rest(p) # <<>> /\ Head(rest(p)) \in Whitespace
                    THEN Tail(rest(p)) ELSE rest(p)
        ok(p) == /\ \A i \in 1..p : sender[i] # "\n"
                 /\ isTimeToken(token(p))
        found == {p \in 0..Len(sender) : ok(p)}
    IN IF found = {}
       THEN [matched |-> FALSE, namePart |-> <<>>, timePart |-> <<>>]
       ELSE LET p == CHOOSE q \in found : \A o \in found : q <= o
            IN [matched |-> TRUE, namePart |-> SubSeq(sender, 1, p), timePart |-> token(p)]

\* The defensive normalization of the sender: the sender as stored in the record.
normalizeSender(sender) ==
    LET m == matchTrailingTime(sender)
    IN IF m.matched /\ m.namePart # <<>> /\ trim(m.namePart) # <<>>
       THEN trim(m.namePart)
       ELSE sender

\* The display label after the defensive normalization of the sender.
normalizeLabel(sender, label) ==
    LET m == matchTrailingTime(sender)
    IN IF m.matched /\ m.namePart # <<>> /\ trim(m.namePart) # <<>> /\ label.t # "string"
       THEN Str(m.timePart)
       ELSE label

\* Batch element: deriveTimestamp(extractString(item.date_time ?? item.timestamp ?? item.time))
itemStamp(item) ==
    CHOOSE out \in
        {deriveTimestamp(timestampSource) :
            timestampSource \in {extractString(firstPresent(<<get(item, "date_time"),
                                                              get(item, "timestamp"),
                                                              get(item, "time")>>))}} : TRUE

\* Batch element: extractString(item.userName ?? item.user ?? item.username) ?? "System"
itemSender(item) ==
    firstPresent(<<extractString(firstPresent(<<get(item, "userName"), get(item, "user"),
                                                get(item, "username")>>)),
                   Str(S_System)>>).s

\* Batch element: a message text that is itself a JSON object is unwrapped once.
unwrapText(raw) ==
    LET pick(inner) ==
            IF inner.t \in {"object", "array"}
            THEN firstPresent(<<extractString(get(inner, "message")),
                                extractString(get(inner, "content")),
                                extractString(get(inner, "text")),
                                extractString(get(inner, "userName")),
                                Str(JsonStringify(inner))>>).s
            ELSE raw
    IN CHOOSE out \in {pick(inner) : inner \in {tryParseJson(raw)}} : TRUE

\* Batch element: extractString(item.message ?? item.content ?? item.text) ?? "", unwrapped.
itemText(item) ==
    CHOOSE out \in
        {unwrapText(raw) :
            raw \in {firstPresent(<<extractString(firstPresent(<<get(item, "message"),
                                                                get(item, "content"),
                                                                get(item, "text")>>)),
                                    Str(<<>>)>>).s}} : TRUE

\* itemRecord with isOwn: normalizedSender === currentUser alone.
itemRecordOwnAnySender(item, normalizedSender, messageText, stamp, user, n) ==
    LET isSystem == toLowerCase(normalizedSender) = toLowerCase(S_System)
    IN [id |-> String(firstPresent(<<get(item, "id"), Str(randomId(n))>>)),
        username |-> normalizedSender,
        content |-> messageText,
        timestamp |-> stamp.date,
        displayTimestamp |-> stamp.label,
        isOwn |-> normalizedSender = user,
        isSystem |-> isSystem]

\* Batch element: the record, from the normalized sender and the text.
itemRecord(item, normalizedSender, messageText, stamp, user, n) ==
    LET isSystem == toLowerCase(normalizedSender) = toLowerCase(S_System)
    IN [id |-> String(firstPresent(<<get(item, "id"), Str(randomId(n))>>)),
        username |-> normalizedSender,
        content |-> messageText,
        timestamp |-> stamp.date,
        displayTimestamp |-> stamp.label,
        isOwn |-> ~isSystem /\ normalizedSender = user,
        isSystem |-> isSystem]

\* The callback of batch.map: one batch element to one record.  n: the value
\* randomId() would return.
decodeItem(item, user, n) ==
    CHOOSE out \in
        {itemRecord(item, normalizeSender(sender), messageText,
                    [stamp EXCEPT !.label = normalizeLabel(sender, @)], user, n) :
            sender \in {itemSender(item)},
            messageText \in {itemText(item)},
            stamp \in {itemStamp(item)}} : TRUE

\* payload.match(/^(.*)\s:\s(.*)$/): the last " : " of a one-line payload.
matchDelimited(payload) ==
    LET n == Len(payload)
        ok(i) == /\ payload[i] \in Whitespace
                 /\ payload[i + 1] = ":"
                 /\ payload[i + 2] \in Whitespace
                 /\ \A k \in (1..(i - 1)) \cup ((i + 3)..n) : payload[k] # "\n"
        found == {i \in 1..(n - 2) : ok(i)}
    IN IF found = {}
       THEN [matched |-> FALSE, sender |-> <<>>, content |-> <<>>]
       ELSE LET i == CHOOSE q \in found : \A o \in found : q >= o
            IN [matched |-> TRUE, sender |-> SubSeq(payload, 1, i - 1),
                content |-> SubSeq(payload, i + 3, n)]

\* parseChatPayload, structured form: the record, from the sender and the text.
structuredRecord(sender, messageText, stamp, user, n) ==
    LET isSystem == toLowerCase(sender) = toLowerCase(S_System)
        stored(normalizedSender) ==
            [id |-> randomId(n),
             username |-> normalizedSender,
             content |-> messageText,
             timestamp |-> stamp.date,
             displayTimestamp |-> normalizeLabel(sender, stamp.label),
             isOwn |-> ~isSystem /\ normalizedSender = user,
             isSystem |-> isSystem]
    IN CHOOSE out \in {stored(normalizedSender) :
                          normalizedSender \in {normalizeSender(sender)}} : TRUE

\* parseChatPayload, delimited text form.
delimitedRecord(payload, user, n) ==
    LET stored(m) ==
            LET sender == IF m.matched THEN trim(m.sender) ELSE S_System
                isSystem == toLowerCase(sender) = toLowerCase(S_System)
            IN [id |-> randomId(n),
                username |-> sender,
                content |-> IF m.matched THEN trim(m.content) ELSE payload,
                timestamp |-> Now,
                displayTimestamp |-> Undef,
                isOwn |-> ~isSystem /\ sender = user,
                isSystem |-> isSystem]
    IN CHOOSE out \in {stored(m) : m \in {matchDelimited(payload)}} : TRUE

parseChatPayload(payload, user, n) ==
    LET parsedRecord(jsonPayload) ==
            IF jsonPayload.t \in {"object", "array"}
            THEN structuredRecord(
                    firstPresent(<<extractString(get(jsonPayload, "userName")),
                                   extractString(get(jsonPayload, "username")),
                                   extractString(get(jsonPayload, "user")),
                                   Str(S_System)>>).s,
                    firstPresent(<<extractString(get(jsonPayload, "message")),
                                   extractString(get(jsonPayload, "content")),
                                   extractString(get(jsonPayload, "text")),
                                   Str(payload)>>).s,
                    deriveTimestamp(
                        firstPresent(<<extractString(get(jsonPayload, "date_time")),
                                       extractString(get(jsonPayload, "timestamp")),
                                       extractString(get(jsonPayload, "time"))>>)),
                    user, n)
            ELSE delimitedRecord(payload, user, n)
    IN CHOOSE out \in {parsedRecord(jsonPayload) :
                          jsonPayload \in {tryParseJson(payload)}} : TRUE

createSystemMessage(text, n) ==
    [id |-> randomId(n), username |-> S_System, content |-> text,
     timestamp |-> Now, displayTimestamp |-> Undef,
     isOwn |-> FALSE, isSystem |-> TRUE]

----------------------------------------------------------------------------
(* ChatRoom *)

T_Establishing == <<"Establishing connection...">>
T_Connected == <<"Connected to lounge.">>
T_Closed == <<"Connection closed.">>
T_Lost == <<"Connection lost (code ", "1006", ").">>
T_Error == <<"Connection error. Please refresh to reconnect.">>
T_Loaded(n) == <<"Loaded ", ToString(n), " recent messages.">>
T_Unavailable == <<"Connection unavailable.">>
T_CannotSend == <<"Cannot send message while disconnected.">>
T_SendFailed == <<"Message failed to send.">>

\* messages, connectionState: the component's state.  isActive: the flag of the
\* current effect, whose listeners are registered exactly while it is TRUE.
\* runs, firstRunAt, calls: history (how often the effect ran, how many frames
\* had been delivered when it first ran, and every decode handleMessage made:
\* the delivery number and text of the frame, and where its records went).
NewRoom ==
    [messages |-> <<>>, connectionState |-> "connecting", isActive |-> FALSE,
     nextId |-> 0, runs |-> 0, firstRunAt |-> 0, calls |-> <<>>,
     sent |-> <<>>, sends |-> <<>>]

appendSystemMessage(r, text) ==
    [r EXCEPT !.messages = Append(@, createSystemMessage(text, r.nextId)),
              !.nextId = @ + 1]

ChatHandleOpen(r) ==
    IF ~r.isActive THEN r
    ELSE appendSystemMessage([r EXCEPT !.connectionState = "connected"], T_Connected)

\* handleClose without its isActive test.
ChatHandleCloseAlways(r, wasClean) ==
    appendSystemMessage([r EXCEPT !.connectionState = "disconnected"],
                        IF wasClean THEN T_Closed ELSE T_Lost)

ChatHandleClose(r, wasClean) ==
    IF ~r.isActive THEN r
    ELSE appendSystemMessage([r EXCEPT !.connectionState = "disconnected"],
                             IF wasClean THEN T_Closed ELSE T_Lost)

ChatHandleError(r) ==
    IF ~r.isActive THEN r
    ELSE appendSystemMessage([r EXCEPT !.connectionState = "error"], T_Error)

\* appendBatch without mapped.reverse().
appendBatchUnreversed(r, batch, user) ==
    LET mapped == [i \in 1..Len(batch) |-> decodeItem(batch[i], user, r.nextId + i - 1)]
        r1 == [r EXCEPT !.messages = @ \o mapped, !.nextId = @ + Len(batch)]
    IN appendSystemMessage(r1, T_Loaded(Len(mapped)))

\* The batch branch: map, reverse, append, then the notice.
appendBatch(r, batch, user) ==
    LET mapped == [i \in 1..Len(batch) |-> decodeItem(batch[i], user, r.nextId + i - 1)]
        ordered == reverse(mapped)
        r1 == [r EXCEPT !.messages = @ \o ordered, !.nextId = @ + Len(batch)]
    IN appendSystemMessage(r1, T_Loaded(Len(ordered)))

\* The single-message branch.
appendSingle(r, data, user) ==
    [r EXCEPT !.messages = Append(@, parseChatPayload(data, user, r.nextId)),
              !.nextId = @ + 1]

\* handleMessage without the catch around the batch branch: an element that
\* makes map throw ends the handler, and nothing is appended.
handleMessageNoFallback(r, msg, user) ==
    LET decoded(before) ==
            IF ~before.isActive THEN before
            ELSE LET parsed == tryParseJson(trim(msg.data))
                     isBatch == parsed.t = "object" /\ parsed.data.t = "array"
                     throws == \E i \in 1..Len(parsed.data.s) : Nullish(parsed.data.s[i])
                     grown(after) ==
                         [after EXCEPT !.calls =
                             Append(@, [n |-> msg.n, data |-> msg.data,
                                        from |-> Len(before.messages),
                                        count |-> Len(after.messages) - Len(before.messages)])]
                 IN IF isBatch
                    THEN IF throws
                         THEN grown(before)
                         ELSE CHOOSE out \in {grown(x) : x \in {appendBatch(before, parsed.data.s, user)}} : TRUE
                    ELSE CHOOSE out \in {grown(x) : x \in {appendSingle(before, msg.data, user)}} : TRUE
    IN CHOOSE out \in {decoded(before) : before \in {r}} : TRUE

\* msg: the frame's text (data) with its delivery number (n).  Reading a key
\* of a null or undefined element throws inside map; the catch falls back to
\* single-message parsing of the whole frame.  (before is bound to the value
\* of r, so that r is evaluated once.)
handleMessage(r, msg, user) ==
    LET decoded(before) ==
            IF ~before.isActive THEN before
            ELSE LET parsed == tryParseJson(trim(msg.data))
                     isBatch == parsed.t = "object" /\ parsed.data.t = "array"
                     throws == \E i \in 1..Len(parsed.data.s) : Nullish(parsed.data.s[i])
                     grown(after) ==
                         [after EXCEPT !.calls =
                             Append(@, [n |-> msg.n, data |-> msg.data,
                                        from |-> Len(before.messages),
                                        count |-> Len(after.messages) - Len(before.messages)])]
                 IN IF isBatch /\ ~throws
                    THEN CHOOSE out \in {grown(x) : x \in {appendBatch(before, parsed.data.s, user)}} : TRUE
                    ELSE CHOOSE out \in {grown(x) : x \in {appendSingle(before, msg.data, user)}} : TRUE
    IN CHOOSE out \in {decoded(before) : before \in {r}} : TRUE

\* The drain loop running from the newest buffered frame to the oldest.
RECURSIVE drainNewestFirst(_, _, _)
drainNewestFirst(r, buf, user) ==
    IF buf = <<>> THEN r
    ELSE drainNewestFirst(handleMessage(r, buf[Len(buf)], user),
                          SubSeq(buf, 1, Len(buf) - 1), user)

\* for (const msg of buffer) handleMessage(...)
RECURSIVE drain(_, _, _)
drain(r, buf, user) ==
    IF buf = <<>> THEN r ELSE drain(handleMessage(r, Head(buf), user), Tail(buf), user)

\* The effect's body without the ready-state check: handleOpen is called
\* whatever the socket's state.
effectRunAssumingOpen(r, readyState, buf, user, seen) ==
    LET r0 == [r EXCEPT !.isActive = TRUE, !.runs = @ + 1,
                        !.firstRunAt = IF r.runs = 0 THEN seen ELSE @]
        r1 == appendSystemMessage(r0, T_Establishing)
    IN drain(ChatHandleOpen(r1), buf, user)

\* The effect's body for a socket that is present.
effectRun(r, readyState, buf, user, seen) ==
    LET r0 == [r EXCEPT !.isActive = TRUE, !.runs = @ + 1,
                        !.firstRunAt = IF r.runs = 0 THEN seen ELSE @]
        r1 == appendSystemMessage(r0, T_Establishing)
        r2 == CASE readyState = "OPEN" -> ChatHandleOpen(r1)
                [] readyState \in {"CLOSING", "CLOSED"} ->
                       [r1 EXCEPT !.connectionState = "disconnected"]
                [] OTHER -> [r1 EXCEPT !.connectionState = "connecting"]
    IN drain(r2, buf, user)

EffectRun ==
    /\ ~room.isActive
    /\ room.runs < MaxRuns
    /\ att.readyState # "NONE"
    /\ room' = effectRun(room, att.readyState, buffer, currentUser, Len(delivered))
    /\ buffer' = IF buffer # <<>> THEN <<>> ELSE buffer
    /\ UNCHANGED <<delivered, currentUser, lenientDates, target, session>>
    /\ UNCHANGED connVars

EffectCleanup ==
    /\ room.isActive
    /\ room' = [room EXCEPT !.isActive = FALSE]
    /\ UNCHANGED <<buffer, delivered, currentUser, lenientDates, target, session>>
    /\ UNCHANGED connVars

\* The effect's body for an absent socket.
EffectRunNoSocket ==
    /\ att.readyState = "NONE"
    /\ room.runs < MaxRuns
    /\ room' = appendSystemMessage([room EXCEPT !.connectionState = "disconnected",
                                                !.runs = @ + 1], T_Unavailable)
    /\ UNCHANGED <<buffer, delivered, currentUser, lenientDates, target, session>>
    /\ UNCHANGED connVars

\* What a call of handleSendMessage leaves in the history: the content, the
\* socket's readyState ("NONE": no socket), whether send threw, and what the
\* call changed (records appended, frames written, connectionState).
noteSend(before, after, readyState, content, throws) ==
    [after EXCEPT !.sends =
        Append(@, [content |-> content, readyState |-> readyState, threw |-> throws,
                   from |-> Len(before.messages),
                   count |-> Len(after.messages) - Len(before.messages),
                   wrote |-> Len(after.sent) - Len(before.sent),
                   stateBefore |-> before.connectionState,
                   stateAfter |-> after.connectionState])]

\* handleSendMessage without the readyState test.
handleSendMessageAnyState(r, readyState, content, throws) ==
    IF throws
    THEN noteSend(r, appendSystemMessage(r, T_SendFailed), readyState, content, throws)
    ELSE noteSend(r, [r EXCEPT !.sent = Append(@, content)], readyState, content, throws)

\* sent: the frames written to the transport by socket.send; throws: send raises.
handleSendMessage(r, readyState, content, throws) ==
    IF readyState # "OPEN"
    THEN noteSend(r, appendSystemMessage(r, T_CannotSend), readyState, content, FALSE)
    ELSE IF throws
         THEN noteSend(r, appendSystemMessage(r, T_SendFailed), readyState, content, throws)
         ELSE noteSend(r, [r EXCEPT !.sent = Append(@, content)], readyState, content, throws)

\* What the user may type: plain text, and text that looks like an envelope.
Bodies == {<<"h", "i">>, <<"{", "userName:bob,message:hi", "}">>}

SendMessage ==
    /\ room.runs > 0
    /\ Len(room.sends) < MaxSends
    /\ \E content \in Bodies, throws \in BOOLEAN :
          room' = handleSendMessage(room, att.readyState, content, throws)
    /\ UNCHANGED <<buffer, delivered, currentUser, lenientDates, target, session>>
    /\ UNCHANGED connVars

\* A message event: first the listener connectAuthSocket registered, then
\* ChatRoom's, if registered.
pushToBuffer(buf, listeners, msg) ==
    IF "message" \in listeners THEN Append(buf, msg) ELSE buf

FrameArrives ==
    /\ att.readyState = "OPEN"
    /\ Len(delivered) < MaxFrames
    /\ \E f \in Frames :
          LET msg == [n |-> Len(delivered) + 1, data |-> f]
          IN /\ delivered' = Append(delivered, f)
             /\ buffer' = pushToBuffer(buffer, att.listeners, msg)
             /\ room' = handleMessage(room, msg, currentUser)
    /\ UNCHANGED <<currentUser, lenientDates, target, session>>
    /\ UNCHANGED connVars

DecodeArrives ==
    /\ att.readyState = "OPEN"
    /\ Len(delivered) < MaxDecodes
    /\ \E f \in DecodeFrames :
          LET msg == [n |-> Len(delivered) + 1, data |-> f]
          IN /\ delivered' = Append(delivered, f)
             /\ buffer' = pushToBuffer(buffer, att.listeners, msg)
             /\ room' = handleMessage(room, msg, currentUser)
    /\ UNCHANGED <<currentUser, lenientDates, target, session>>
    /\ UNCHANGED connVars

----------------------------------------------------------------------------
(* The connection URL.  A URL text is a sequence of tokens: scheme, "//",   *)
(* host, ":" and port, the path, then "?", parameter names, "=", "&" and    *)
(* the characters of the values, a percent escape being three characters.   *)

\* A code unit that is half of a surrogate pair, standing alone, and the
\* replacement character U+FFFD.
S_LoneSurrogate == "uD800"
S_Replacement == "uFFFD"

\* The characters a username is made of here: a letter, characters that are
\* reserved in a URL, and a lone surrogate.
NameChars == {"a", " ", "&", "+", "%", S_LoneSurrogate}

\* The percent escape of the UTF-8 encoding of a character.
PercentCode(c) ==
    CASE c = " " -> <<"%", "2", "0">>
      [] c = "&" -> <<"%", "2", "6">>
      [] c = "+" -> <<"%", "2", "B">>
      [] c = "%" -> <<"%", "2", "5">>
      [] c = S_Replacement -> <<"%", "E", "F", "%", "B", "F", "%", "B", "D">>
      [] OTHER -> <<c>>

Escaped == {" ", "&", "+", "%", S_Replacement}

\* Conversion to a USVString, as the URLSearchParams interface does to its
\* arguments: a lone surrogate becomes U+FFFD.
toUSVString(s) == [i \in 1..Len(s) |-> IF s[i] = S_LoneSurrogate THEN S_Replacement ELSE s[i]]

RECURSIVE flatten(_)
flatten(parts) == IF parts = <<>> THEN <<>> ELSE Head(parts) \o flatten(Tail(parts))

\* encodeURIComponent(s): letters stay, every other character here is
\* escaped; it throws URIError on a lone surrogate (urlEncodes is FALSE).
urlEncodes(s) == \A i \in 1..Len(s) : s[i] # S_LoneSurrogate

encodeURIComponent(s) ==
    flatten([i \in 1..Len(s) |-> IF s[i] = "a" THEN <<s[i]>> ELSE PercentCode(s[i])])

formEncodeRawPlus(s) ==
    flatten([i \in 1..Len(s) |->
                CASE s[i] = " " -> <<"+">>
                  [] s[i] \in {"a", "+"} -> <<s[i]>>
                  [] OTHER -> PercentCode(s[i])])

\* The application/x-www-form-urlencoded serializer of URLSearchParams: a
\* space becomes "+", letters stay, every other character here is escaped.
formEncode(s) ==
    flatten([i \in 1..Len(s) |->
                CASE s[i] = " " -> <<"+">>
                  [] s[i] = "a" -> <<s[i]>>
                  [] OTHER -> PercentCode(s[i])])

hasPrefix(s, p) == Len(s) >= Len(p) /\ SubSeq(s, 1, Len(p)) = p

\* Percent decoding; plus: "+" stands for a space (form decoding).
RECURSIVE percentDecode(_, _)
percentDecode(s, plus) ==
    IF s = <<>> THEN <<>>
    ELSE IF \E c \in Escaped : hasPrefix(s, PercentCode(c))
         THEN LET c == CHOOSE c \in Escaped : hasPrefix(s, PercentCode(c))
              IN <<c>> \o percentDecode(SubSeq(s, Len(PercentCode(c)) + 1, Len(s)), plus)
         ELSE <<IF plus /\ Head(s) = "+" THEN " " ELSE Head(s)>> \o percentDecode(Tail(s), plus)

Schemes == {"ws:", "wss:"}
PortNumbers == {"8000", "9000", "5173"}

\* new URL(text) of a text without query: the parsed URL, or ok = FALSE
\* where the constructor throws (no scheme, or a port that is no number).
parseUrl(text) ==
    LET n == Len(text)
        ported == n >= 5 /\ text[4] = ":"
    IN IF n >= 4 /\ text[1] \in Schemes /\ text[2] = "//"
          /\ (ported => text[5] \in PortNumbers)
       THEN [ok |-> TRUE, scheme |-> text[1], host |-> text[3],
             port |-> IF ported THEN text[5] ELSE "",
             path |-> SubSeq(text, IF ported THEN 6 ELSE 4, n)]
       ELSE [ok |-> FALSE, scheme |-> "", host |-> "", port |-> "", path |-> <<>>]

\* url.toString() after url.searchParams.set("userName", username), or
\* without it for query = <<>>.
urlToString(u, query) ==
    <<u.scheme, "//", u.host>> \o (IF u.port = "" THEN <<>> ELSE <<":", u.port>>)
        \o u.path \o (IF query = <<>> THEN <<>> ELSE <<"?">> \o query)

\* The environment: env.url is VITE_WS_BASE_URL and env.port VITE_WS_PORT
\* (<<>> and "": not set), env.dev is import.meta.env.DEV, env.protocol and
\* env.pagePort are window.location's; the page's hostname is "localhost".
\* envUrl.replace(/\/?$/, ""): one trailing slash is removed.
stripSlash(envUrl) ==
    IF envUrl[Len(envUrl)] = "/" THEN SubSeq(envUrl, 1, Len(envUrl) - 1) ELSE envUrl

\* resolveBaseUrl, in the version of the plain connectAuthSocket (lines 19-43)
\* and in the version with the connectivity pre-check (lines 179-189).
resolveBaseUrl(v, env) ==
    IF env.url # <<>>
    THEN stripSlash(env.url)
    ELSE IF v = "precheck"
         THEN <<"ws:", "//", "13.233.208.206", ":", "8000">>
         ELSE LET wsProtocol == IF env.protocol = "https:" THEN "wss:" ELSE "ws:"
                  useDevDefaultPort == env.dev /\ (env.port = "" \/ env.port = "auto")
                  resolvedPort == IF env.port # "" THEN env.port
                                  ELSE IF useDevDefaultPort /\ env.pagePort # "8000"
                                       THEN "8000" ELSE env.pagePort
              IN <<wsProtocol, "//", "localhost">>
                    \o (IF resolvedPort # "" THEN <<":", resolvedPort>> ELSE <<>>)

getRoutePath(route) ==
    IF route = "login" THEN <<"/ws/lounge/login">> ELSE <<"/ws/lounge/register">>

\* buildWebSocketUrl: the text, whether the fallback path built it, and
\* whether the call threw instead of returning (encodeURIComponent in the
\* catch block).
buildWebSocketUrl(v, env, route, username) ==
    LET base == resolveBaseUrl(v, env)
        path == getRoutePath(route)
        built(url) ==
            IF url.ok
            THEN [text |-> urlToString(url, IF username # <<>>
                                            THEN <<"userName", "=">>
                                                    \o formEncode(toUSVString(username))
                                            ELSE <<>>),
                  fallback |-> FALSE, threw |-> FALSE]
            ELSE IF urlEncodes(username)
                 THEN [text |-> base \o path
                                  \o (IF username # <<>>
                                      THEN <<"?", "userName", "=">> \o encodeURIComponent(username)
                                      ELSE <<>>),
                       fallback |-> TRUE, threw |-> FALSE]
                 ELSE [text |-> <<>>, fallback |-> TRUE, threw |-> TRUE]
    IN CHOOSE out \in {built(url) : url \in {parseUrl(base \o path)}} : TRUE

\* What a connectAuthSocket call asks of the network: the URL it opens the
\* transport with (none where buildWebSocketUrl threw) and the frames it
\* writes on the transport, which are none: handleOpen only resolves.
connectRequestSendingPassword(v, env, route, credentials) ==
    LET normalizedUsername == trim(credentials.username)
        built == buildWebSocketUrl(v, env, route, normalizedUsername)
    IN [base |-> resolveBaseUrl(v, env), url |-> built.text, fallback |-> built.fallback,
        threw |-> built.threw,
        frames |-> IF credentials.password = "absent" THEN <<>> ELSE <<credentials.password>>]

connectRequest(v, env, route, credentials) ==
    LET normalizedUsername == trim(credentials.username)
        built == buildWebSocketUrl(v, env, route, normalizedUsername)
    IN [base |-> resolveBaseUrl(v, env), url |-> built.text, fallback |-> built.fallback,
        threw |-> built.threw, frames |-> <<>>]

NoRequest == [base |-> <<>>, url |-> <<>>, fallback |-> FALSE, threw |-> FALSE, frames |-> <<>>]

\* VITE_WS_BASE_URL: not set, with a trailing slash, with a port, and a
\* text that is no absolute URL.
BaseOverrides ==
    {<<>>, <<"wss:", "//", "chat.example", "/">>, <<"ws:", "//", "chat.example", ":", "9000">>,
     <<"lounge.example">>}

Environments ==
    [url : BaseOverrides, port : {"", "auto", "9000"}, dev : BOOLEAN,
     protocol : {"http:", "https:"}, pagePort : {"", "8000", "5173"}]

Passwords == {"absent", "hunter2"}

RECURSIVE textsUpTo(_)
textsUpTo(n) ==
    IF n = 0 THEN {<<>>}
    ELSE textsUpTo(n - 1) \cup {Append(t, c) : t \in {u \in textsUpTo(n - 1) : Len(u) = n - 1}, c \in NameChars}

Usernames == textsUpTo(MaxName)

NoTarget ==
    [env |-> [url |-> <<>>, port |-> "", dev |-> FALSE, protocol |-> "http:", pagePort |-> ""],
     route |-> "login", credentials |-> [username |-> <<>>, password |-> "absent"],
     built |-> FALSE, request |-> NoRequest]

\* connectAuthSocket(route, credentials) up to new WebSocket(url).
OpenTransport ==
    /\ ~target.built
    /\ target' = [target EXCEPT !.built = TRUE,
                                !.request = connectRequest(variant, target.env, target.route,
                                                           target.credentials)]
    /\ UNCHANGED <<variant, hasSignal, urlOk, signalAborted, att, hist>>
    /\ UNCHANGED <<buffer, delivered, room, currentUser, lenientDates, session>>

----------------------------------------------------------------------------
(* connectAuthSocket *)

Transient == {"open", "error", "close", "abort"}

NewAttempt ==
    [pc |-> "idle", settled |-> FALSE, timeoutId |-> FALSE, listeners |-> {},
     readyState |-> "NONE", sockets |-> 0, closeCalls |-> 0, closeThrew |-> FALSE,
     settleCalls |-> 0, outcome |-> "pending", closeCallsAtReject |-> -1]

\* resolve(x) / reject(e) of the promise: every call is counted, the first decides.
settle(a, result) ==
    [a EXCEPT !.settleCalls = @ + 1,
              !.outcome = IF @ = "pending" THEN result ELSE @]

cleanup(a) ==
    [a EXCEPT !.listeners = @ \ Transient, !.timeoutId = FALSE]

\* socket.close() inside the try block; throws: the call raises.
socketClose(a, throws) ==
    [a EXCEPT !.closeCalls = @ + 1,
              !.closeThrew = @ \/ throws,
              !.readyState = IF ~throws /\ @ \in {"CONNECTING", "OPEN"} THEN "CLOSING" ELSE @]

\* rejectWithCleanup without the socket.close() call.
rejectWithoutClose(a, error, throws) ==
    IF ~a.settled
    THEN LET s2 == cleanup([a EXCEPT !.settled = TRUE])
         IN [settle(s2, error) EXCEPT !.closeCallsAtReject = s2.closeCalls]
    ELSE a

rejectWithCleanup(a, error, throws) ==
    IF ~a.settled
    THEN LET s1 == [a EXCEPT !.settled = TRUE]
             s2 == cleanup(s1)
             s3 == socketClose(s2, throws)
         IN [settle(s3, error) EXCEPT !.closeCallsAtReject = s3.closeCalls]
    ELSE a

\* handleOpen without cleanup().
handleOpenNoCleanup(a) ==
    settle([a EXCEPT !.settled = TRUE], "resolved")

handleOpen(a) ==
    settle(cleanup([a EXCEPT !.settled = TRUE]), "resolved")

handleError(a, throws) ==
    rejectWithCleanup(a, "ErrorFailed", throws)

handleClose(a, throws) ==
    IF ~a.settled THEN rejectWithCleanup(a, "ErrorClosed", throws) ELSE a

handleAbort(a, throws) ==
    rejectWithCleanup(a, "AbortError", throws)

onTimeout(a, throws) ==
    rejectWithCleanup(a, "ErrorTimeout", throws)

\* establish without window.setTimeout.
establishNoTimer(a, v, sig, ok) ==
    IF ~ok
    THEN IF v = "plain"
         THEN [settle(a, "SyntaxError") EXCEPT !.pc = "threw"]
         ELSE [a EXCEPT !.pc = "threw"]
    ELSE [a EXCEPT !.pc = "ran",
                   !.sockets = @ + 1,
                   !.readyState = "CONNECTING",
                   !.listeners = {"message", "open", "error", "close"}
                                    \cup (IF sig THEN {"abort"} ELSE {})]

\* The executor from `const url = ...` to the end: build the URL, construct the
\* socket, install the buffer and its message listener, register the handlers,
\* start the timer.  A throwing constructor leaves the executor: the plain
\* executor's throw rejects the promise, the async executor's throw rejects only
\* the async function's own discarded promise.
establish(a, v, sig, ok) ==
    IF ~ok
    THEN IF v = "plain"
         THEN [settle(a, "SyntaxError") EXCEPT !.pc = "threw"]
         ELSE [a EXCEPT !.pc = "threw"]
    ELSE [a EXCEPT !.pc = "ran",
                   !.sockets = @ + 1,
                   !.readyState = "CONNECTING",
                   !.listeners = {"message", "open", "error", "close"}
                                    \cup (IF sig THEN {"abort"} ELSE {}),
                   !.timeoutId = TRUE]

\* executor without the signal?.aborted check.
executorNoAbortCheck(a, v, sig, aborted, ok) ==
    IF v = "plain"
    THEN establish(a, v, sig, ok)
    ELSE [a EXCEPT !.pc = "precheck"]

\* The executor up to its first suspension point.
executor(a, v, sig, aborted, ok) ==
    IF sig /\ aborted
    THEN [settle(a, "AbortError") EXCEPT !.pc = "returned"]
    ELSE IF v = "plain"
         THEN establish(a, v, sig, ok)
         ELSE [a EXCEPT !.pc = "precheck"]

\* Event dispatch: a handler runs only while its listener is registered.
dispatchOpen(a) ==
    IF "open" \in a.listeners
    THEN handleOpen([a EXCEPT !.listeners = @ \ {"open"}])
    ELSE a

dispatchError(a, throws) ==
    IF "error" \in a.listeners THEN handleError(a, throws) ELSE a

dispatchClose(a, throws) ==
    IF "close" \in a.listeners THEN handleClose(a, throws) ELSE a

dispatchAbort(a, throws) ==
    IF "abort" \in a.listeners
    THEN handleAbort([a EXCEPT !.listeners = @ \ {"abort"}], throws)
    ELSE a

NoHistory ==
    [firstEvent |-> "none", settledBy |-> "none", lateEvents |-> {},
     abortedAtCall |-> FALSE, abortWhilePending |-> FALSE, transportSignalled |-> FALSE]

\* What an event leaves in the history, given the attempt before and after it.
noteEvent(h, ev, before, after) ==
    LET live == before.pc # "idle" /\ before.outcome = "pending"
    IN [h EXCEPT
          !.firstEvent = IF @ = "none" /\ live THEN ev ELSE @,
          !.settledBy = IF ~before.settled /\ after.settled THEN ev ELSE @,
          !.lateEvents = IF before.outcome # "pending" THEN @ \cup {ev} ELSE @,
          !.abortWhilePending = @ \/ (ev = "abort" /\ live),
          !.transportSignalled = @ \/ (ev \in {"open", "error", "close"} /\ before.pc # "idle")]

Call ==
    /\ att.pc = "idle"
    /\ att' = executor(att, variant, hasSignal, signalAborted, urlOk)
    /\ hist' = [hist EXCEPT !.abortedAtCall = hasSignal /\ signalAborted]
    /\ UNCHANGED <<variant, hasSignal, urlOk, signalAborted>>
    /\ UNCHANGED chatVars

PrecheckDone ==
    /\ att.pc = "precheck"
    /\ att' = establish(att, variant, hasSignal, urlOk)
    /\ UNCHANGED <<variant, hasSignal, urlOk, signalAborted, hist>>
    /\ UNCHANGED chatVars

SignalAbort ==
    /\ hasSignal /\ ~signalAborted
    /\ signalAborted' = TRUE
    /\ \E throws \in BOOLEAN :
          /\ att' = dispatchAbort(att, throws)
          /\ hist' = noteEvent(hist, "abort", att, att')
    /\ UNCHANGED <<variant, hasSignal, urlOk>>
    /\ UNCHANGED chatVars

TransportOpen ==
    /\ att.readyState = "CONNECTING"
    /\ att' = dispatchOpen([att EXCEPT !.readyState = "OPEN"])
    /\ hist' = noteEvent(hist, "open", att, att')
    /\ UNCHANGED <<variant, hasSignal, urlOk, signalAborted>>
    /\ UNCHANGED chatVars

\* The connection fails: the socket is CLOSED, then error and close are fired, in
\* that order, in one task.
TransportFail ==
    /\ att.readyState \in {"CONNECTING", "OPEN", "CLOSING"}
    /\ \E throws \in BOOLEAN :
          LET a0 == [att EXCEPT !.readyState = "CLOSED"]
              a1 == dispatchError(a0, throws)
              a2 == dispatchClose(a1, throws)
          IN /\ att' = a2
             /\ hist' = noteEvent(noteEvent(hist, "error", att, a1), "close", a1, a2)
    /\ room' = ChatHandleClose(ChatHandleError(room), FALSE)
    /\ UNCHANGED <<variant, hasSignal, urlOk, signalAborted>>
    /\ UNCHANGED <<buffer, delivered, currentUser, lenientDates, target, session>>

TransportClose ==
    /\ att.readyState \in {"CONNECTING", "OPEN", "CLOSING"}
    /\ \E throws \in BOOLEAN :
          /\ att' = dispatchClose([att EXCEPT !.readyState = "CLOSED"], throws)
          /\ hist' = noteEvent(hist, "close", att, att')
    /\ \E wasClean \in BOOLEAN : room' = ChatHandleClose(room, wasClean)
    /\ UNCHANGED <<variant, hasSignal, urlOk, signalAborted>>
    /\ UNCHANGED <<buffer, delivered, currentUser, lenientDates, target, session>>

TimerFire ==
    /\ att.timeoutId
    /\ \E throws \in BOOLEAN :
          /\ att' = onTimeout([att EXCEPT !.timeoutId = FALSE], throws)
          /\ hist' = noteEvent(hist, "timeout", att, att')
    /\ UNCHANGED <<variant, hasSignal, urlOk, signalAborted>>
    /\ UNCHANGED chatVars

----------------------------------------------------------------------------
(* App and LoginDialog.  Attempt i is the i-th connectAuthSocket call of    *)
(* handleSubmit and socket i the transport it creates.  An action is one    *)
(* task of the event loop together with the promise continuations it        *)
(* starts; React renders in the same step, and runs App's passive effects   *)
(* in a later task (AppEffects).                                            *)

S_Replaced == "Replaced by a new session"
S_Unmounted == "App unmounted"

NoSession ==
    [mounted |-> TRUE,
     isLoggedIn |-> FALSE, user |-> <<>>, chatSocket |-> 0,
     effectSocket |-> 0,        \* the chatSocket App's effects were last run for
     isLoading |-> FALSE, error |-> FALSE, pendingController |-> 0,
     attempts |-> <<>>, sockets |-> <<>>,
     logins |-> <<>>, resets |-> <<>>]      \* history of handleLogin calls and of session resets

\* socket.close(code, reason).  closes: the reasons of the close calls made
\* on the socket; closedWith: the reason of its close event ("none": no
\* close event yet).
closeSocket(s, k, reason) ==
    [s EXCEPT !.sockets[k].closes = Append(@, reason),
              !.sockets[k].readyState = IF @ \in {"CONNECTING", "OPEN"} THEN "CLOSING" ELSE @]

\* handleLogin of the render the caller was created in: seen is that
\* render's chatSocket.  State setters do nothing once App is unmounted.
handleLogin(s, seen, socket) ==
    LET s1 == IF seen # 0 /\ seen # socket THEN closeSocket(s, seen, S_Replaced) ELSE s
        s2 == [s1 EXCEPT !.logins = Append(@, [previous |-> s.chatSocket, seen |-> seen,
                                               socket |-> socket])]
    IN IF s.mounted
       THEN [s2 EXCEPT !.user = S_bob, !.chatSocket = socket, !.isLoggedIn = TRUE]
       ELSE s2

\* handleSubmit after its await, for attempt i, which has settled.
continueSubmit(s, i) ==
    LET a == s.attempts[i]
        s1 == [s EXCEPT !.pendingController = 0]
        s2 == IF s.mounted THEN [s1 EXCEPT !.isLoading = FALSE] ELSE s1
    IN IF a.phase = "resolved" THEN handleLogin(s2, a.seen, i)
       ELSE IF a.abortError \/ ~s.mounted THEN s2
       ELSE [s2 EXCEPT !.error = TRUE]

\* controller.abort() of attempt i: handleAbort runs where connectAuthSocket
\* has registered it and not yet removed it, that is while the attempt waits
\* for its socket; it closes the socket and rejects with an AbortError.
abortController(s, i) ==
    LET a == s.attempts[i]
    IN IF a.aborted THEN s
       ELSE IF a.phase = "connecting"
            THEN closeSocket([s EXCEPT !.attempts[i].aborted = TRUE,
                                       !.attempts[i].phase = "rejected",
                                       !.attempts[i].abortError = TRUE], i, "")
            ELSE [s EXCEPT !.attempts[i].aborted = TRUE]

\* handleSubmit up to its await, then the continuation of the attempt it
\* aborted.  The new attempt keeps the onLogin of this render (seen), and
\* whether the form was submitted while its button was disabled (direct).
handleSubmit(s, v) ==
    LET s0 == [s EXCEPT !.isLoading = TRUE, !.error = FALSE]
        prev == s.pendingController
        s1 == IF prev # 0 THEN abortController(s0, prev) ELSE s0
        s2 == [s1 EXCEPT
                 !.pendingController = Len(s.attempts) + 1,
                 !.attempts = Append(@, [phase |-> IF v = "precheck" THEN "precheck" ELSE "connecting",
                                         aborted |-> FALSE, abortError |-> FALSE,
                                         seen |-> s.chatSocket, direct |-> s.isLoading]),
                 !.sockets = Append(@, [readyState |-> IF v = "precheck" THEN "NONE" ELSE "CONNECTING",
                                        closes |-> <<>>, closedWith |-> "none"])]
    IN IF prev # 0 /\ s1.attempts[prev].phase # s.attempts[prev].phase
       THEN continueSubmit(s2, prev)
       ELSE s2

\* App's handleClose resetting isLoggedIn and currentUser only.
appHandleCloseKeepingSocket(s, k, reason) ==
    IF reason \in {S_Replaced, S_Unmounted} \/ ~s.mounted
    THEN s
    ELSE [s EXCEPT !.isLoggedIn = FALSE, !.user = <<>>,
                   !.resets = Append(@, [socket |-> k, held |-> s.chatSocket])]

\* App's close listener on socket k.
appHandleClose(s, k, reason) ==
    IF reason \in {S_Replaced, S_Unmounted} \/ ~s.mounted
    THEN s
    ELSE [s EXCEPT !.isLoggedIn = FALSE, !.user = <<>>, !.chatSocket = 0,
                   !.resets = Append(@, [socket |-> k, held |-> s.chatSocket])]

\* The cleanups of App's two effects for the socket they were run for.
appCleanup(s) ==
    IF s.effectSocket # 0
    THEN [closeSocket(s, s.effectSocket, S_Unmounted) EXCEPT !.effectSocket = 0]
    ELSE s

\* The form is rendered while the dialog is open.  Its controls are
\* disabled while isLoading; a submit event dispatched on the form itself
\* reaches handleSubmit all the same.
Submit ==
    /\ session.mounted /\ ~session.isLoggedIn
    /\ Len(session.attempts) < MaxSubmits
    /\ session' = handleSubmit(session, variant)
    /\ UNCHANGED <<variant, hasSignal, urlOk, signalAborted, att, hist>>
    /\ UNCHANGED <<buffer, delivered, room, currentUser, lenientDates, target>>

\* The fetch of the connectivity pre-check ends: the socket is created, and
\* handleAbort registered on a signal that may have fired already.
PrecheckEnds ==
    \E i \in 1..Len(session.attempts) :
        /\ session.attempts[i].phase = "precheck"
        /\ session' = [session EXCEPT !.attempts[i].phase = "connecting",
                                      !.sockets[i].readyState = "CONNECTING"]
        /\ UNCHANGED <<variant, hasSignal, urlOk, signalAborted, att, hist>>
        /\ UNCHANGED <<buffer, delivered, room, currentUser, lenientDates, target>>

AttemptOpens ==
    \E i \in 1..Len(session.attempts) :
        /\ session.attempts[i].phase = "connecting"
        /\ session' = continueSubmit([session EXCEPT !.attempts[i].phase = "resolved",
                                                     !.sockets[i].readyState = "OPEN"], i)
        /\ UNCHANGED <<variant, hasSignal, urlOk, signalAborted, att, hist>>
        /\ UNCHANGED <<buffer, delivered, room, currentUser, lenientDates, target>>

\* error and close, or the timeout, before the socket opened.
AttemptFails ==
    \E i \in 1..Len(session.attempts) :
        /\ session.attempts[i].phase = "connecting"
        /\ session' = continueSubmit([session EXCEPT !.attempts[i].phase = "rejected",
                                                     !.sockets[i].readyState = "CLOSED"], i)
        /\ UNCHANGED <<variant, hasSignal, urlOk, signalAborted, att, hist>>
        /\ UNCHANGED <<buffer, delivered, room, currentUser, lenientDates, target>>

\* The reason of a close event is the one of the Close frame the server
\* sent, or empty where the connection was lost.
CloseReasons == {"", S_Replaced, S_Unmounted}

SocketCloses ==
    \E k \in 1..Len(session.sockets), reason \in CloseReasons :
        /\ session.sockets[k].readyState \in {"OPEN", "CLOSING"}
        /\ LET s1 == [session EXCEPT !.sockets[k].readyState = "CLOSED",
                                     !.sockets[k].closedWith = reason]
           IN session' = IF session.effectSocket = k THEN appHandleClose(s1, k, reason) ELSE s1
        /\ UNCHANGED <<variant, hasSignal, urlOk, signalAborted, att, hist>>
        /\ UNCHANGED <<buffer, delivered, room, currentUser, lenientDates, target>>

\* App's effects after a render that changed chatSocket: the cleanups for
\* the previous socket, then the close listener on the new one.
AppEffects ==
    /\ session.mounted
    /\ session.effectSocket # session.chatSocket
    /\ session' = [appCleanup(session) EXCEPT !.effectSocket = session.chatSocket]
    /\ UNCHANGED <<variant, hasSignal, urlOk, signalAborted, att, hist>>
    /\ UNCHANGED <<buffer, delivered, room, currentUser, lenientDates, target>>

\* App is unmounted (pending effects are run first): the cleanup of
\* LoginDialog's effect, the cleanups of App's effects, then the
\* continuation of the attempt the cleanup aborted.
Unmount ==
    /\ session.mounted
    /\ session.effectSocket = session.chatSocket
    /\ LET prev == session.pendingController
           s1 == IF prev # 0
                 THEN [abortController(session, prev) EXCEPT !.pendingController = 0]
                 ELSE session
           s2 == [appCleanup(s1) EXCEPT !.mounted = FALSE]
       IN session' = IF prev # 0 /\ s1.attempts[prev].phase # session.attempts[prev].phase
                     THEN continueSubmit(s2, prev)
                     ELSE s2
    /\ UNCHANGED <<variant, hasSignal, urlOk, signalAborted, att, hist>>
    /\ UNCHANGED <<buffer, delivered, room, currentUser, lenientDates, target>>

ChatIdle ==
    /\ buffer = <<>>
    /\ delivered = <<>>
    /\ room = NewRoom
    /\ currentUser = S_bob
    /\ lenientDates = TRUE
    /\ target = NoTarget
    /\ session = NoSession

InitConn ==
    /\ variant \in {"plain", "precheck"}
    /\ hasSignal \in BOOLEAN
    /\ urlOk \in BOOLEAN
    /\ signalAborted = FALSE
    /\ att = NewAttempt
    /\ hist = NoHistory
    /\ ChatIdle

NextConn ==
    \/ Call
    \/ PrecheckDone
    \/ SignalAbort
    \/ TransportOpen
    \/ TransportFail
    \/ TransportClose
    \/ TimerFire

SpecConn == InitConn /\ [][NextConn]_vars

\* The timer and the fetch of the connectivity pre-check (bounded by its own
\* 5 s timeout) are driven by the event loop.
LiveConn == InitConn /\ [][NextConn]_vars /\ WF_vars(TimerFire) /\ WF_vars(PrecheckDone)

\* ChatRoom is mounted with the socket a connectAuthSocket call resolved with.
ResolvedAttempt ==
    dispatchOpen([establish([NewAttempt EXCEPT !.pc = "ran"], "plain", TRUE, TRUE)
                    EXCEPT !.readyState = "OPEN"])

InitChat ==
    /\ variant = "plain"
    /\ hasSignal = TRUE
    /\ urlOk = TRUE
    /\ signalAborted = FALSE
    /\ att = ResolvedAttempt
    /\ hist = [NoHistory EXCEPT !.firstEvent = "open", !.settledBy = "open",
                                !.transportSignalled = TRUE]
    /\ buffer = <<>>
    /\ delivered = <<>>
    /\ room = NewRoom
    /\ currentUser = S_bob
    /\ lenientDates = TRUE
    /\ target = NoTarget
    /\ session = NoSession

Users == {S_bob, S_System}

\* ChatRoom mounted for either user, on either kind of engine.
InitDecode ==
    /\ variant = "plain"
    /\ hasSignal = TRUE
    /\ urlOk = TRUE
    /\ signalAborted = FALSE
    /\ att = ResolvedAttempt
    /\ hist = [NoHistory EXCEPT !.firstEvent = "open", !.settledBy = "open",
                                !.transportSignalled = TRUE]
    /\ buffer = <<>>
    /\ delivered = <<>>
    /\ room = NewRoom
    /\ currentUser \in Users
    /\ lenientDates \in BOOLEAN
    /\ target = NoTarget
    /\ session = NoSession

NextDecode ==
    \/ DecodeArrives
    \/ EffectRun

SpecDecode == InitDecode /\ [][NextDecode]_vars

\* ChatRoom mounted with a resolved socket, or with none.
InitSend ==
    /\ variant = "plain"
    /\ hasSignal = TRUE
    /\ urlOk = TRUE
    /\ signalAborted = FALSE
    /\ \/ /\ att = ResolvedAttempt
          /\ hist = [NoHistory EXCEPT !.firstEvent = "open", !.settledBy = "open",
                                      !.transportSignalled = TRUE]
       \/ /\ att = NewAttempt
          /\ hist = NoHistory
    /\ buffer = <<>>
    /\ delivered = <<>>
    /\ room = NewRoom
    /\ currentUser = S_bob
    /\ lenientDates = TRUE
    /\ target = NoTarget
    /\ session = NoSession

NextSend ==
    \/ EffectRun
    \/ EffectRunNoSocket
    \/ EffectCleanup
    \/ SendMessage
    \/ TransportFail
    \/ TransportClose

SpecSend == InitSend /\ [][NextSend]_vars

NextChat ==
    \/ FrameArrives
    \/ EffectRun
    \/ EffectCleanup
    \/ TransportFail
    \/ TransportClose

SpecChat == InitChat /\ [][NextChat]_vars

\* A connectAuthSocket call in any environment, for any credentials.
InitUrl ==
    /\ variant \in {"plain", "precheck"}
    /\ hasSignal = TRUE
    /\ urlOk = TRUE
    /\ signalAborted = FALSE
    /\ att = NewAttempt
    /\ hist = NoHistory
    /\ buffer = <<>>
    /\ delivered = <<>>
    /\ room = NewRoom
    /\ currentUser = S_bob
    /\ lenientDates = TRUE
    /\ target \in [env : Environments, route : {"login", "register"},
                    credentials : [username : Usernames, password : Passwords],
                    built : {FALSE}, request : {NoRequest}]
    /\ session = NoSession

NextUrl == OpenTransport

SpecUrl == InitUrl /\ [][NextUrl]_vars

\* App mounted, nobody logged in, with either connectAuthSocket.
InitLogin ==
    /\ variant \in {"plain", "precheck"}
    /\ hasSignal = TRUE
    /\ urlOk = TRUE
    /\ signalAborted = FALSE
    /\ att = NewAttempt
    /\ hist = NoHistory
    /\ ChatIdle

NextLogin ==
    \/ Submit
    \/ PrecheckEnds
    \/ AttemptOpens
    \/ AttemptFails
    \/ SocketCloses
    \/ AppEffects
    \/ Unmount

SpecLogin == InitLogin /\ [][NextLogin]_vars

\* React runs the effects of a committed render.
LiveLogin == InitLogin /\ [][NextLogin]_vars /\ WF_vars(AppEffects)

----------------------------------------------------------------------------
(* Properties of connectAuthSocket *)

OutcomeOf(ev) ==
    CASE ev = "open" -> "resolved"
      [] ev = "error" -> "ErrorFailed"
      [] ev = "close" -> "ErrorClosed"
      [] ev = "abort" -> "AbortError"
      [] ev = "timeout" -> "ErrorTimeout"
      [] OTHER -> "pending"

Rejections == {"ErrorFailed", "ErrorClosed", "AbortError", "ErrorTimeout"}

\* C1: the promise is settled at most once, the first of open, error, close,
\* abort and timeout to fire after the call decides the outcome, and
\* socket.close() is never called a second time.
C1_FirstEventDecides ==
    /\ att.settleCalls <= 1
    /\ att.closeCalls <= 1
    /\ hist.firstEvent # "none" /\ att.outcome # "pending" =>
          att.outcome = OutcomeOf(hist.firstEvent)

\* C1 restricted to the plain executor, where it holds: a later event finds
\* no listener and no timer.
C1_PlainFirstEventDecides ==
    variant = "plain" => C1_FirstEventDecides

C1_PlainLateEvent ==
    /\ variant = "plain"
    /\ hist.firstEvent = "open"
    /\ {"abort", "error", "close"} \subseteq hist.lateEvents

\* C2: a signal already aborted at the call rejects with the AbortError, and
\* no WebSocket is constructed, no timer started, no listener registered.
C2_AbortedAtCall ==
    hist.abortedAtCall =>
        /\ att.outcome = "AbortError"
        /\ att.settleCalls = 1
        /\ att.sockets = 0
        /\ att.readyState = "NONE"
        /\ ~att.timeoutId
        /\ att.listeners = {}

C2_Witness ==
    /\ hist.abortedAtCall
    /\ att.pc = "returned"
    /\ variant = "precheck"

\* C3: an abort that fires between the call and settlement rejects the attempt
\* with the AbortError and closes any transport created for it.
C3_AbortTakesEffect ==
    hist.abortWhilePending /\ (att.outcome # "pending" \/ att.sockets > 0) =>
        /\ att.outcome = "AbortError"
        /\ att.sockets > 0 => att.closeCalls = 1

\* C3 for the plain executor, where the abort listener exists from the call on.
C3_PlainAbortTakesEffect ==
    variant = "plain" => C3_AbortTakesEffect

C3_PlainWitness ==
    /\ variant = "plain"
    /\ hist.abortWhilePending
    /\ att.closeCalls = 1

\* C4: with a transport that never signals open, error or close and a signal
\* that never fires, the attempt is eventually rejected with the timeout
\* error, and with no other error.
C4_TimeoutEventually ==
    /\ [](att.pc # "idle" /\ urlOk =>
            <>(att.outcome = "ErrorTimeout" \/ hist.transportSignalled \/ signalAborted))
    /\ [](urlOk /\ ~hist.transportSignalled /\ ~signalAborted =>
            att.outcome \in {"pending", "ErrorTimeout"})

C4_Witness ==
    /\ att.outcome = "ErrorTimeout"
    /\ variant = "precheck"
    /\ ~hist.transportSignalled
    /\ ~signalAborted

\* C5: every call eventually settles its promise.
C5_EventuallySettles ==
    (att.pc # "idle") ~> (att.outcome # "pending")

\* C6: a rejection of an attempt that created a transport calls socket.close()
\* exactly once, before reject(error); the error is the one of the event that
\* settled the attempt even when close throws; an attempt resolved by open is
\* never closed by connectAuthSocket.
C6_CloseOnceBeforeReject ==
    /\ hist.settledBy \in {"error", "close", "abort", "timeout"} =>
          /\ att.outcome = OutcomeOf(hist.settledBy)
          /\ att.closeCalls = 1
          /\ att.closeCallsAtReject = 1
    /\ att.sockets > 0 /\ att.outcome \in Rejections =>
          /\ att.closeCalls = 1
          /\ att.closeCallsAtReject = 1
    /\ att.outcome = "resolved" => att.closeCalls = 0

C6_Witness ==
    /\ att.outcome = "ErrorTimeout"
    /\ att.closeThrew
    /\ att.closeCalls = 1

\* C7: once open has resolved the attempt, the timer is cancelled and the
\* open, error, close and abort listeners are gone; no later abort, error or
\* close settles the promise again or closes the transport.
C7_ResolvedIsFinal ==
    att.outcome = "resolved" =>
        /\ ~att.timeoutId
        /\ att.listeners \cap Transient = {}
        /\ att.settleCalls = 1
        /\ att.closeCalls = 0

C7_Witness ==
    /\ att.outcome = "resolved"
    /\ {"abort", "error", "close"} \subseteq hist.lateEvents
    /\ att.readyState = "CLOSED"

----------------------------------------------------------------------------
(* Properties of the frame buffer and of ChatRoom *)

\* C8: with one attachment of ChatRoom, every frame the transport delivered
\* is decoded, in arrival order, the buffered frames before the live ones;
\* until ChatRoom attaches, the buffer holds every delivered frame in order.
C8_NoFrameLost ==
    /\ room.runs = 0 =>
          /\ room.calls = <<>>
          /\ Len(buffer) = Len(delivered)
          /\ \A i \in 1..Len(delivered) : buffer[i].data = delivered[i]
    /\ room.runs = 1 /\ room.isActive =>
          /\ Len(room.calls) = Len(delivered)
          /\ \A i \in 1..Len(delivered) :
                /\ room.calls[i].n = i
                /\ room.calls[i].data = delivered[i]
                /\ room.calls[i].count >= 1

C8_Witness ==
    /\ room.runs = 1
    /\ room.isActive
    /\ room.firstRunAt >= 2
    /\ Len(delivered) > room.firstRunAt

\* C9: each frame the transport delivered is handed to the normalizer at
\* most once, whatever the attaching, detaching and re-attaching of ChatRoom.
C9_DrainOnce ==
    \A i, j \in 1..Len(room.calls) :
        i # j => room.calls[i].n # room.calls[j].n

IsBatchFrame(data) ==
    LET parsed == tryParseJson(trim(data))
    IN parsed.t = "object" /\ parsed.data.t = "array"

BatchItems(data) == tryParseJson(trim(data)).data.s

\* rec is the decoding of batch element item (its identifier aside when the
\* element carries none).
Matches(rec, item) ==
    /\ rec.username = normalizeSender(itemSender(item))
    /\ rec.content = itemText(item)
    /\ ~Nullish(get(item, "id")) => rec.id = String(get(item, "id"))

\* C10 as stated: for every batch frame with elements e1..en the records
\* appended for it are the decodings of en, ..., e1, in that order, as one block.
C10_BatchReversed ==
    \A k \in 1..Len(room.calls) :
        LET c == room.calls[k]
        IN IsBatchFrame(c.data) =>
              LET items == BatchItems(c.data)
                  n == Len(items)
              IN /\ c.count >= n
                 /\ \A i \in 1..n : Matches(room.messages[c.from + i], items[n + 1 - i])

\* C10 as amended: for a batch frame none of whose elements is null, the
\* records appended are the decodings of en, ..., e1 as one block, followed by
\* the notice "Loaded n recent messages."; a batch frame with a null element
\* yields the single record of single-message parsing.
C10_NonNullBatchReversed ==
    \A k \in 1..Len(room.calls) :
        LET c == room.calls[k]
        IN IsBatchFrame(c.data) =>
              LET items == BatchItems(c.data)
                  n == Len(items)
              IN IF \A i \in 1..n : ~Nullish(items[i])
                 THEN /\ c.count = n + 1
                      /\ \A i \in 1..n :
                            Matches(room.messages[c.from + i], items[n + 1 - i])
                      /\ room.messages[c.from + n + 1].isSystem
                      /\ room.messages[c.from + n + 1].content = T_Loaded(n)
                 ELSE c.count = 1

C10_Witness ==
    \E k \in 1..Len(room.calls) :
        /\ room.calls[k].data = R_batch321
        /\ room.calls[k].from > 2
        /\ Len(room.messages) > room.calls[k].from + 4

----------------------------------------------------------------------------
(* Properties of the payload normalizer *)

\* The frame is decoded as a batch: its data field is an array and no
\* element of it is null.
IsDecodedBatch(data) ==
    IsBatchFrame(data) /\ \A i \in 1..Len(BatchItems(data)) : ~Nullish(BatchItems(data)[i])

\* How a frame is decoded: as a batch (items: its elements), as one
\* structured entry (entry), or as delimited text.
Shape(data) ==
    LET parsed == tryParseJson(trim(data))
        items == IF parsed.t = "object" /\ parsed.data.t = "array" THEN parsed.data.s ELSE <<>>
        batch == /\ parsed.t = "object" /\ parsed.data.t = "array"
                 /\ \A i \in 1..Len(items) : ~Nullish(items[i])
    IN [batch |-> batch, items |-> items,
        single |-> parsed.t = "object" /\ ~batch, entry |-> parsed]

\* C11: the records of a batch whose elements carry parsable timestamps are
\* in chronological order: their event times are non-decreasing, whatever the
\* order of the elements in the frame.
C11_BatchChronological ==
    \A k \in 1..Len(room.calls) :
        LET c == room.calls[k]
        IN IsDecodedBatch(c.data) =>
              \A i \in 1..(Len(BatchItems(c.data)) - 1) :
                  LET a == room.messages[c.from + i].timestamp
                      b == room.messages[c.from + i + 1].timestamp
                  IN ~a.now /\ ~b.now => a.t <= b.t

\* C12 as stated: handling a frame always completes, and every frame
\* contributes at least one record decoded from it to the transcript.
C12_AtLeastOneDecoded ==
    /\ room.isActive => Len(room.calls) = Len(delivered)
    /\ \A k \in 1..Len(room.calls) :
          LET c == room.calls[k]
          IN c.count - (IF IsDecodedBatch(c.data) THEN 1 ELSE 0) >= 1

\* C12 as amended: handling a frame always completes, and every frame
\* contributes at least one record to the transcript: a batch of n elements
\* none of which is null contributes its n decoded records and the notice
\* "Loaded n recent messages." (for an empty batch the notice alone), every
\* other frame exactly one decoded record.
C12_AtLeastOneRecord ==
    /\ room.isActive =>
          /\ Len(room.calls) = Len(delivered)
          /\ \A i \in 1..Len(delivered) : room.calls[i].data = delivered[i]
    /\ \A k \in 1..Len(room.calls) :
          LET c == room.calls[k]
              sh == Shape(c.data)
          IN /\ c.count >= 1
             /\ c.from + c.count <= Len(room.messages)
             /\ IF sh.batch
                THEN /\ c.count = Len(sh.items) + 1
                     /\ room.messages[c.from + c.count].content = T_Loaded(Len(sh.items))
                ELSE c.count = 1

C12_Witness ==
    /\ \E k \in 1..Len(room.calls) :
          room.calls[k].data = R_batchNull /\ room.calls[k].count = 1
    /\ \E k \in 1..Len(room.calls) :
          room.calls[k].data \in {R_batchEmpty, R_malformed, R_batchNum}

\* C13: no record of the transcript has both the ownership flag and the
\* system flag, whatever the frames and the current username ("System" too).
C13_FlagsExclusive ==
    \A i \in 1..Len(room.messages) :
        ~(room.messages[i].isOwn /\ room.messages[i].isSystem)

\* The current user is called System and records whose sender is System were
\* decoded from a batch element and from a single frame.
C13_Witness ==
    /\ currentUser = S_System
    /\ \E k \in 1..Len(room.calls) :
          /\ room.calls[k].data = BatchText(<<7>>)
          /\ room.messages[room.calls[k].from + 1].username = currentUser
          /\ room.messages[room.calls[k].from + 1].isSystem
    /\ \E k \in 1..Len(room.calls) :
          /\ room.calls[k].data \in {EntryText(7), R_malformed}
          /\ room.messages[room.calls[k].from + 1].username = currentUser

\* C14: in every record the system flag is true exactly when the sender
\* stored in the record equals "System" ignoring case, and the ownership flag
\* exactly when the system flag is false and that sender is the current
\* username.
C14_FlagsFromStoredSender ==
    \A i \in 1..Len(room.messages) :
        LET rec == room.messages[i]
        IN /\ rec.isSystem <=> toLowerCase(rec.username) = toLowerCase(S_System)
           /\ rec.isOwn <=> (~rec.isSystem /\ rec.username = currentUser)

\* C14 for the records of batch elements, where the flag is taken from the
\* sender after the repair.
C14_BatchFlagsFromStoredSender ==
    \A k \in 1..Len(room.calls) :
        LET c == room.calls[k]
        IN IsDecodedBatch(c.data) =>
              \A i \in 1..c.count :
                  LET rec == room.messages[c.from + i]
                  IN /\ rec.isSystem <=> toLowerCase(rec.username) = toLowerCase(S_System)
                     /\ rec.isOwn <=> (~rec.isSystem /\ rec.username = currentUser)

\* C15: every record of the transcript has a non-empty identifier and no two
\* records share one.
C15_UniqueIds ==
    \A i \in 1..Len(room.messages) :
        /\ room.messages[i].id # <<>>
        /\ \A j \in 1..Len(room.messages) :
              i # j => room.messages[i].id # room.messages[j].id

\* The frame is decoded as one structured entry.
IsStructuredSingle(data) ==
    tryParseJson(data).t = "object" /\ ~IsDecodedBatch(data)

Synthesized(id) == Len(id) = 2 /\ id[1] = "uuid-"

\* expected is the identifier of the entry, or undefined: the record uses it
\* if present and a synthesized one otherwise.
UsesIdentifier(rec, expected) ==
    IF Nullish(expected) THEN Synthesized(rec.id) ELSE rec.id = String(expected)

\* C16: a record decoded from a structured payload that carries an
\* identifier uses it, and otherwise a synthesized one, for a single
\* structured frame and for each element of a batch.
C16_ProvidedIdUsed ==
    \A k \in 1..Len(room.calls) :
        LET c == room.calls[k]
        IN /\ IsStructuredSingle(c.data) =>
                 UsesIdentifier(room.messages[c.from + 1], get(tryParseJson(c.data), "id"))
           /\ IsDecodedBatch(c.data) =>
                 \A i \in 1..Len(BatchItems(c.data)) :
                     UsesIdentifier(room.messages[c.from + i],
                                    get(BatchItems(c.data)[Len(BatchItems(c.data)) + 1 - i], "id"))

\* C16 for the elements of a batch, where the entry's identifier is read.
C16_BatchProvidedIdUsed ==
    \A k \in 1..Len(room.calls) :
        LET c == room.calls[k]
        IN IsDecodedBatch(c.data) =>
              \A i \in 1..Len(BatchItems(c.data)) :
                  UsesIdentifier(room.messages[c.from + i],
                                 get(BatchItems(c.data)[Len(BatchItems(c.data)) + 1 - i], "id"))

\* The frame is a batch with the single element Entries[k].
IsBatchOfOne(data, k) == data = BatchText(<<k>>)

\* C17: the record of an entry received as the only element of a batch has
\* the sender, body, display label, system flag and ownership flag of the
\* record of the same entry received as a single structured frame.
C17_BatchLikeSingle ==
    \A c \in 1..Len(room.calls), k \in 1..Len(Entries) :
        IsBatchOfOne(room.calls[c].data, k) =>
            LET rec == room.messages[room.calls[c].from + 1]
                single == parseChatPayload(EntryText(k), currentUser, 0)
            IN /\ rec.username = single.username
               /\ rec.content = single.content
               /\ rec.displayTimestamp = single.displayTimestamp
               /\ rec.isSystem = single.isSystem
               /\ rec.isOwn = single.isOwn

\* The value of the first of the keys that holds a non-blank string, trimmed;
\* undefined when none does.
FirstUsable(entry, keys) ==
    LET usable == {i \in 1..Len(keys) :
                      get(entry, keys[i]).t = "string" /\ trim(get(entry, keys[i]).s) # <<>>}
    IN IF usable = {} THEN Undef
       ELSE Str(trim(get(entry, keys[CHOOSE i \in usable : \A j \in usable : i <= j]).s))

SenderKeys == <<"userName", "username", "user">>
BodyKeys == <<"message", "content", "text">>

\* rec has the sender and the body the entry's keys give, the sender after its
\* repair; raw is the text of the frame.
KeysInOrder(rec, entry, raw) ==
    /\ ~Nullish(FirstUsable(entry, SenderKeys)) =>
          rec.username = normalizeSender(FirstUsable(entry, SenderKeys).s)
    /\ rec.content = IF Nullish(FirstUsable(entry, BodyKeys))
                     THEN raw ELSE FirstUsable(entry, BodyKeys).s

\* C18: in a structured entry, single frame or batch element, the sender is
\* the value of the first of userName, username, user that is a non-blank
\* string and the body the value of the first such key of message, content,
\* text, or the raw frame text when there is none.
C18_KeyPriority ==
    \A k \in 1..Len(room.calls) :
        LET c == room.calls[k]
        IN /\ IsStructuredSingle(c.data) =>
                 KeysInOrder(room.messages[c.from + 1], tryParseJson(c.data), c.data)
           /\ IsDecodedBatch(c.data) =>
                 \A i \in 1..Len(BatchItems(c.data)) :
                     LET item == BatchItems(c.data)[Len(BatchItems(c.data)) + 1 - i]
                     IN item.t = "object" =>
                           KeysInOrder(room.messages[c.from + i], item, c.data)

\* C18 for a single structured frame, where each key is tried in turn.
C18_SingleKeyPriority ==
    \A k \in 1..Len(room.calls) :
        LET c == room.calls[k]
        IN IsStructuredSingle(c.data) =>
              KeysInOrder(room.messages[c.from + 1], tryParseJson(c.data), c.data)

StampKeys == <<"date_time", "timestamp", "time">>

\* The sender an entry decodes to, before the repair.
DecodedSender(entry) ==
    IF Nullish(FirstUsable(entry, SenderKeys)) THEN S_System
    ELSE FirstUsable(entry, SenderKeys).s

\* lead, an optional blank and a clock token make up the sender.
SplitsAt(sender, lead) ==
    /\ lead <= Len(sender)
    /\ LET rest == SubSeq(sender, lead + 1, Len(sender))
       IN isTimeToken(rest) \/ (rest # <<>> /\ Head(rest) = " " /\ isTimeToken(Tail(rest)))

\* rec is the record of a decoded sender: if the sender ends with a clock
\* token after a leading part that is not blank, the record's sender is that
\* part, trimmed, and its label the clock token unless timestamp derivation
\* set a label (derived); otherwise the sender is unchanged.
Repaired(rec, sender, derived) ==
    LET leads == {p \in 0..Len(sender) : SplitsAt(sender, p) /\ trim(SubSeq(sender, 1, p)) # <<>>}
    IN IF leads = {}
       THEN rec.username = sender
       ELSE \E p \in leads :
               /\ rec.username = trim(SubSeq(sender, 1, p))
               /\ derived.t # "string" =>
                     /\ rec.displayTimestamp.t = "string"
                     /\ isTimeToken(rec.displayTimestamp.s)
                     /\ SplitsAt(sender, Len(sender) - Len(rec.displayTimestamp.s))
                            \/ SplitsAt(sender, Len(sender) - Len(rec.displayTimestamp.s) - 1)

\* C19: whichever form it was decoded from (single structured frame, batch
\* element, delimited text), a sender that ends with a clock token after a
\* non-blank leading part is stored as that leading part, trimmed, with the
\* clock token as display label when derivation set none.
C19_SenderRepaired ==
    \A k \in 1..Len(room.calls) :
        LET c == room.calls[k]
            rec == room.messages[c.from + 1]
        IN /\ IsStructuredSingle(c.data) =>
                 Repaired(rec, DecodedSender(tryParseJson(c.data)),
                          FirstUsable(tryParseJson(c.data), StampKeys))
           /\ \A e \in 1..Len(Entries) :
                 IsBatchOfOne(c.data, e) =>
                    Repaired(rec, itemSender(Entries[e]), FirstUsable(Entries[e], StampKeys))
           /\ tryParseJson(c.data).t = "null" /\ matchDelimited(c.data).matched =>
                 Repaired(rec, trim(matchDelimited(c.data).sender), Undef)

\* C19 for the structured forms, where the repair is applied.
C19_StructuredSenderRepaired ==
    \A k \in 1..Len(room.calls) :
        LET c == room.calls[k]
            rec == room.messages[c.from + 1]
        IN /\ IsStructuredSingle(c.data) =>
                 Repaired(rec, DecodedSender(tryParseJson(c.data)),
                          FirstUsable(tryParseJson(c.data), StampKeys))
           /\ \A e \in 1..Len(Entries) :
                 IsBatchOfOne(c.data, e) =>
                    Repaired(rec, itemSender(Entries[e]), FirstUsable(Entries[e], StampKeys))

\* rec carries one of the three outcomes of timestamp derivation for the
\* source src (a trimmed string, or undefined when there is none or it is
\* blank); a label set where derivation sets none is the one of the sender's
\* repair (repaired).
Derived(rec, src, repaired) ==
    LET variants == isoCandidates(src.s)
        good == {i \in 1..Len(variants) : DateParse(variants[i]).valid}
        first == CHOOSE i \in good : \A j \in good : i <= j
        unlabelled == rec.displayTimestamp = Undef \/ repaired
    IN CASE Nullish(src) -> rec.timestamp.now /\ unlabelled
         [] ~Nullish(src) /\ good = {} -> rec.timestamp.now /\ rec.displayTimestamp = src
         [] OTHER -> /\ ~rec.timestamp.now
                     /\ rec.timestamp.t = DateParse(variants[first]).t
                     /\ unlabelled

\* C20: every record has a resolved event time, and the record of a
\* structured entry (single frame or batch element) has the current time and no label when the entry has no
\* or a blank timestamp source, the time the first succeeding parse variant
\* gives and no label when some variant succeeds, and the current time with
\* the source string as label when every variant fails.
C20_TimestampOutcomes ==
    /\ \A i \in 1..Len(room.messages) :
          room.messages[i].timestamp.now \/ room.messages[i].timestamp.t >= 0
    /\ \A k \in 1..Len(room.calls) :
          LET c == room.calls[k]
              sh == Shape(c.data)
          IN /\ sh.single =>
                   Derived(room.messages[c.from + 1], FirstUsable(sh.entry, StampKeys),
                           matchTrailingTime(DecodedSender(sh.entry)).matched)
             /\ sh.batch =>
                   \A i \in 1..Len(sh.items) :
                       LET item == sh.items[Len(sh.items) + 1 - i]
                       IN item.t = "object" =>
                             Derived(room.messages[c.from + i], FirstUsable(item, StampKeys),
                                     matchTrailingTime(itemSender(item)).matched)

\* On an engine that parses the ISO forms only, a source with slashes and a
\* blank was parsed by a later variant, an unparsable one became the label,
\* one element of a batch and one single frame.
C20_Witness ==
    /\ ~lenientDates
    /\ \E k \in 1..Len(room.calls) :
          /\ room.calls[k].data \in {EntryText(9), BatchText(<<9>>)}
          /\ ~room.messages[room.calls[k].from + 1].timestamp.now
    /\ \E k \in 1..Len(room.calls) :
          /\ room.calls[k].data \in {EntryText(10), BatchText(<<10>>)}
          /\ room.messages[room.calls[k].from + 1].displayTimestamp = Str(<<"not-a-date">>)
    /\ room.calls[1].count # room.calls[2].count

\* The places of the frame where the separator " : " starts.
Separators(data) ==
    {i \in 1..(Len(data) - 2) : data[i] = " " /\ data[i + 1] = ":" /\ data[i + 2] = " "}

\* C21: a frame that does not parse as a structured object and has the form
\* s : b, s holding no separator, gives the record with sender s and body b,
\* both trimmed, also when b holds a separator; a frame with no separator
\* gives sender "System", the system flag, no ownership flag, and the whole
\* frame as body.
C21_DelimitedSplit ==
    \A k \in 1..Len(room.calls) :
        LET c == room.calls[k]
            rec == room.messages[c.from + 1]
            first == CHOOSE i \in Separators(c.data) : \A j \in Separators(c.data) : i <= j
        IN tryParseJson(c.data).t = "null" =>
              IF Separators(c.data) = {}
              THEN /\ rec.username = S_System
                   /\ rec.isSystem /\ ~rec.isOwn
                   /\ rec.content = c.data
              ELSE /\ rec.username = trim(SubSeq(c.data, 1, first - 1))
                   /\ rec.content = trim(SubSeq(c.data, first + 3, Len(c.data)))

\* C21 for the frames with at most one separator.
C21_OneSeparatorSplit ==
    \A k \in 1..Len(room.calls) :
        LET c == room.calls[k]
            rec == room.messages[c.from + 1]
            first == CHOOSE i \in Separators(c.data) : TRUE
        IN tryParseJson(c.data).t = "null" /\ Cardinality(Separators(c.data)) <= 1 =>
              IF Separators(c.data) = {}
              THEN /\ rec.username = S_System
                   /\ rec.isSystem /\ ~rec.isOwn
                   /\ rec.content = c.data
              ELSE /\ rec.username = trim(SubSeq(c.data, 1, first - 1))
                   /\ rec.content = trim(SubSeq(c.data, first + 3, Len(c.data)))

----------------------------------------------------------------------------
(* Properties of sending *)

Written(e) == e.readyState = "OPEN" /\ ~e.threw

\* C22: a message is written to the transport only when the socket is OPEN,
\* and then as the bare body; when the socket is absent or not OPEN, or send
\* throws, nothing is written, one system record is appended, and the
\* connection state is unchanged.
C22_SendOnlyWhenOpen ==
    /\ \A k \in 1..Len(room.sends) :
          LET e == room.sends[k]
          IN /\ e.stateAfter = e.stateBefore
             /\ IF Written(e)
                THEN e.wrote = 1 /\ e.count = 0
                ELSE /\ e.wrote = 0
                     /\ e.count = 1
                     /\ room.messages[e.from + 1].isSystem
    /\ room.sent = [i \in 1..Len(SelectSeq(room.sends, Written)) |->
                        SelectSeq(room.sends, Written)[i].content]

C22_Witness ==
    /\ Len(room.sends) = 2
    /\ Written(room.sends[1]) /\ Len(room.sends[1].content) = 3
    /\ room.sends[2].readyState = "CLOSED"

C22_WitnessNoSocket ==
    \E k \in 1..Len(room.sends) : room.sends[k].readyState = "NONE"

----------------------------------------------------------------------------
(* Properties of ChatRoom's connection state and of its effect's cleanup *)

\* A mounted ChatRoom has its effect attached from the effect's first run on
\* (a change of socket or user runs the cleanup and the new effect in one
\* step); isActive is FALSE afterwards only for a component that is gone.
\* C33: while the ChatRoom effect is attached to a socket, the connection
\* state is "connected" only if the transport is open, it is "disconnected"
\* or "error" once the transport has closed, and sending is refused then.
C33_ConnectedOnlyWhileOpen ==
    /\ (room.isActive /\ room.connectionState = "connected") => att.readyState = "OPEN"
    /\ (room.isActive /\ att.readyState = "CLOSED")
          => room.connectionState \in {"disconnected", "error"}
    /\ \A k \in 1..Len(room.sends) :
          room.sends[k].readyState = "CLOSED" => room.sends[k].wrote = 0

\* Once the transport has closed, no step makes the state "connected".
C33_NeverConnectedAgain ==
    [][(att.readyState = "CLOSED" /\ room.connectionState # "connected")
          => room'.connectionState # "connected"]_vars

\* The transport closed before the effect ran the second time, and a
\* message was refused afterwards.
C33_Witness ==
    /\ room.isActive /\ room.runs = 2
    /\ att.readyState = "CLOSED"
    /\ room.connectionState = "disconnected"
    /\ room.messages[Len(room.messages)].content = T_CannotSend

\* C34: after the effect has been cleaned up and until it runs again, no
\* event of the socket changes the transcript or the connection state.
C34_NoChangeAfterCleanup ==
    [][(room.runs >= 1 /\ ~room.isActive /\ ~room'.isActive)
          => (room'.messages = room.messages
              /\ room'.connectionState = room.connectionState)]_vars

\* After the cleanup a frame arrived and the transport closed: the frames
\* handled are those of the first run's drain, and the state is still the
\* one the effect left.
C34_Witness ==
    /\ room.runs = 1 /\ ~room.isActive
    /\ Len(delivered) > room.firstRunAt
    /\ Len(room.calls) = room.firstRunAt
    /\ att.readyState = "CLOSED"
    /\ room.connectionState = "connected"

----------------------------------------------------------------------------
(* Properties of the pre-attachment buffer *)

\* C28: once ChatRoom has attached its listener and drained the buffer, the
\* buffer stays empty: frames that arrive afterwards are not added to it.
C28_BufferStaysEmpty ==
    room.runs >= 1 => buffer = <<>>

\* The drain itself leaves the buffer empty.
C28_EmptyAfterDrain ==
    [][room'.runs > room.runs => buffer' = <<>>]_vars

----------------------------------------------------------------------------
(* Properties of the connection URL *)

\* The URL as the server reads it: the path is what precedes "?", the query
\* is split at "&", a parameter at its first "=", and names and values are
\* form-decoded.
IndexOf(text, c) ==
    IF \E i \in 1..Len(text) : text[i] = c
    THEN CHOOSE i \in 1..Len(text) : text[i] = c /\ \A j \in 1..(i - 1) : text[j] # c
    ELSE 0

RECURSIVE SplitAt(_, _)
SplitAt(text, c) ==
    IF IndexOf(text, c) = 0 THEN <<text>>
    ELSE <<SubSeq(text, 1, IndexOf(text, c) - 1)>>
            \o SplitAt(SubSeq(text, IndexOf(text, c) + 1, Len(text)), c)

PathOf(text) ==
    LET q == IndexOf(text, "?")
        n == IF q = 0 THEN Len(text) ELSE q - 1
    IN IF n = 0 THEN "" ELSE text[n]

Param(part) ==
    LET e == IndexOf(part, "=")
    IN IF e = 0 THEN [name |-> part, value |-> <<>>]
       ELSE [name |-> SubSeq(part, 1, e - 1),
             value |-> percentDecode(SubSeq(part, e + 1, Len(part)), TRUE)]

\* The values of the userName parameters of the URL, in order.
UserNamesOf(text) ==
    LET q == IndexOf(text, "?")
        parts == IF q = 0 THEN <<>> ELSE SplitAt(SubSeq(text, q + 1, Len(text)), "&")
        params == [i \in 1..Len(parts) |-> Param(parts[i])]
        named(p) == p.name = <<"userName">>
    IN [i \in 1..Len(SelectSeq(params, named)) |-> SelectSeq(params, named)[i].value]

PortOf(base) == IF Len(base) >= 5 /\ base[4] = ":" THEN base[5] ELSE ""

RoundTrips(req, route, username) ==
    /\ ~req.threw
    /\ PathOf(req.url) = (IF route = "login" THEN "/ws/lounge/login" ELSE "/ws/lounge/register")
    /\ UserNamesOf(req.url) = (IF trim(username) # <<>> THEN <<trim(username)>> ELSE <<>>)

C25_RoundTrip ==
    target.built => RoundTrips(target.request, target.route, target.credentials.username)

\* C25 amended: the same for every username that is well-formed text, that
\* is, has no lone surrogate.
C25_RoundTripWellFormed ==
    target.built /\ urlEncodes(target.credentials.username)
        => RoundTrips(target.request, target.route, target.credentials.username)

C25_Witness ==
    /\ target.built
    /\ target.request.fallback
    /\ target.credentials.username = <<" ", "+">>
    /\ UserNamesOf(target.request.url) = <<<<"+">>>>

C25_WitnessUrlObject ==
    /\ target.built
    /\ ~target.request.fallback
    /\ target.credentials.username = <<"&", "+">>
    /\ UserNamesOf(target.request.url) = <<<<"&", "+">>>>

\* C26: with a base-URL override the base is that value without its
\* trailing slash; without one the base is the page's host with the secure
\* scheme exactly for a secure page, and the page's port unless a port
\* override is configured.
C26_EndpointRule ==
    target.built =>
        LET base == target.request.base
            env == target.env
        IN IF env.url # <<>>
           THEN /\ env.url \in {base, base \o <<"/">>}
                /\ ~endsWith(base, "/")
           ELSE /\ base[1] = (IF env.protocol = "https:" THEN "wss:" ELSE "ws:")
                /\ base[3] = "localhost"
                /\ env.port = "" => PortOf(base) = env.pagePort
                /\ env.port \notin {"", "auto"} => PortOf(base) = env.port

\* The override half of the rule alone.
C26_OverrideVerbatim ==
    target.built /\ target.env.url # <<>> =>
        /\ target.env.url \in {target.request.base, target.request.base \o <<"/">>}
        /\ ~endsWith(target.request.base, "/")

\* C27: with the port override "auto" the endpoint's port is 8000, never
\* the text "auto".
C27_AutoPort ==
    target.built /\ target.env.url = <<>> /\ target.env.port = "auto"
        => PortOf(target.request.base) = "8000"

----------------------------------------------------------------------------
(* Properties of App and LoginDialog *)

Unsettled(i) == session.attempts[i].phase \in {"precheck", "connecting"}

Superseding(l) == l.previous # 0 /\ l.previous # l.socket

\* C23: when handleLogin accepts a socket while App holds a different one,
\* the previous socket is closed with the reason "Replaced by a new
\* session", and afterwards App stays logged in with the new socket as
\* long as that socket itself has not closed.
C23_SupersededSocket ==
    \A k \in 1..Len(session.logins) :
        LET l == session.logins[k]
        IN Superseding(l) =>
              /\ \E c \in 1..Len(session.sockets[l.previous].closes) :
                     session.sockets[l.previous].closes[c] = S_Replaced
              /\ (k = Len(session.logins) /\ session.mounted
                    /\ session.sockets[l.socket].readyState = "OPEN")
                    => session.isLoggedIn /\ session.chatSocket = l.socket

\* The second half alone: a close event of the superseded socket does not
\* reset the session.
C23_NoResetBySuperseded ==
    \A k \in 1..Len(session.resets) : session.resets[k].socket = session.resets[k].held

\* A first login (no previous socket) lasts as long as its socket.
C23_FirstLoginLasts ==
    (Len(session.logins) = 1 /\ session.mounted /\ session.sockets[session.logins[1].socket].readyState = "OPEN")
        => session.isLoggedIn /\ session.chatSocket = session.logins[1].socket

\* C29: at most one attempt is unsettled, and while the latest attempt is
\* unsettled its controller is the one in pendingController.
C29_OneAttempt ==
    /\ Cardinality({i \in 1..Len(session.attempts) : Unsettled(i)}) <= 1
    /\ (session.mounted /\ session.attempts # <<>> /\ Unsettled(Len(session.attempts)))
          => session.pendingController = Len(session.attempts)

\* The same where every submit was made with the controls enabled.
C29_OneAttemptEnabledSubmits ==
    (\A i \in 1..Len(session.attempts) : ~session.attempts[i].direct) => C29_OneAttempt

\* C30: isLoading is true exactly while an attempt is unsettled.
C30_LoadingWhileUnsettled ==
    session.mounted =>
        (session.isLoading <=> \E i \in 1..Len(session.attempts) : Unsettled(i))

\* The same where every submit was made with the controls enabled.
C30_LoadingEnabledSubmits ==
    (\A i \in 1..Len(session.attempts) : ~session.attempts[i].direct)
        => C30_LoadingWhileUnsettled

LoggedOut == ~session.isLoggedIn /\ session.user = <<>> /\ session.chatSocket = 0

\* C31: isLoggedIn is true exactly when chatSocket is non-null, and
\* currentUser is non-empty exactly when isLoggedIn is true.
C31_SessionConsistent ==
    /\ session.isLoggedIn <=> session.chatSocket # 0
    /\ session.user # <<>> <=> session.isLoggedIn

\* Logged in again after a close event had reset the session.
C31_Witness ==
    /\ session.isLoggedIn
    /\ Len(session.resets) >= 1
    /\ Len(session.logins) >= 2

\* Socket k is the one App holds, and has closed for a reason other than
\* the two App sets itself.
ClosedInHand(k) ==
    /\ session.mounted
    /\ k <= Len(session.sockets)
    /\ session.chatSocket = k
    /\ session.sockets[k].readyState = "CLOSED"
    /\ session.sockets[k].closedWith \notin {S_Replaced, S_Unmounted}

\* C32: when the socket handed to App closes for a reason other than
\* "Replaced by a new session" or "App unmounted", App eventually is logged
\* out (or unmounted).
C32_CloseLogsOut ==
    \A k \in 1..MaxSubmits : ClosedInHand(k) ~> (LoggedOut \/ ~session.mounted)

\* The close event that finds App's listener registered logs out at once.
C32_LogsOutWhenListening ==
    [][\A k \in 1..Len(session.sockets) :
          (/\ session.mounted /\ session.effectSocket = k /\ session.chatSocket = k
           /\ session.sockets[k].readyState # "CLOSED"
           /\ session'.sockets[k].readyState = "CLOSED"
           /\ session'.sockets[k].closedWith \notin {S_Replaced, S_Unmounted})
          => (~session'.isLoggedIn /\ session'.user = <<>> /\ session'.chatSocket = 0)]_vars

====
